---- MODULE Spec2Model ----
(***************************************************************************)
(* The video generators of tachelhit-drills:                               *)
(*   backend/shorts_generator.py  generate_youtube_short,                  *)
(*                                generate_drillplayer_demo                *)
(*   hf_space_app.py              generate_youtube_short_hf,               *)
(*                                generate_drillplayer_demo_hf             *)
(* and their entry points api_generate (huggingface-space/app.py) and      *)
(* generate_video_api (hf_space_app.py).                                   *)
(* One behaviour is one job: the inputs are drawn in Init, the asset       *)
(* store, the encoder and the object storage answer nondeterministically.  *)
(* Durations are in milliseconds.  File names are sequences of tokens so   *)
(* that prefixing ("temp_"), suffixing (".png") and splitext are computed. *)
(***************************************************************************)
EXTENDS Integers, Sequences, FiniteSets, TLC

\* ------------------------------------------------------------------ bounds
MaxItems == 2
\* concurrent requests to the server, and seconds the wall clock may advance
MaxJobs == 2
MaxNow == 1
MaxVideoJobs == 2
MaxListed == 2
MaxRecords == 2
MaxImports == 2
MaxSize == 1

\* ------------------------------------------------------ program constants
ShortMinDuration == 4000
ShortAudioMargin == 500
DemoMinDuration == 5000
DemoAudioMargin == 1000
IntroDuration == 3000
OutroDuration == 3000
SHORT_WIDTH == 1080
SHORT_HEIGHT == 1920
DEMO_WIDTH == 1280
DEMO_HEIGHT == 720

None == "None"
Loc == "loc"

\* durations (ms) an audio asset may have
AudioDurations == {2000, 4500, 5000}

Variants == {"backend", "hf"}
Modes == {"short", "demo"}

\* the type / video_type argument of the entry points: a mode or anything else
VideoTypes == Modes \cup {"other"}

\* the arguments of the entry point: all there; one the mode requires is None;
\* (hf) the data string is not JSON
Params == {"ok", "missing", "bad_json"}

\* output filenames the caller may supply, as token sequences
Filenames == { <<"short_1", ".mp4">>, <<"demo_test_1">> }
Extensions == {".mp4", ".png"}

\* a key the dict does not hold at all (drill.get(key) then reads None, and
\* drill.get(key, default) reads the default)
Absent == "Absent"

\* drill.get(key)
Get(item, key) == IF item[key] = Absent THEN None ELSE item[key]

\* the photos of the asset store and their pixel sizes <<width, height>>
PhotoLocs == {Loc, "icon.png", "wide.jpg", "tall.jpg"}
PhotoSize(loc) ==
    CASE loc = Loc -> <<800, 600>>
      [] loc = "icon.png" -> <<100, 80>>
      [] loc = "wide.jpg" -> <<2000, 500>>
      [] loc = "tall.jpg" -> <<1000, 3000>>

\* a RenderItem: the fields the generators read with drill.get(...).  None is
\* Python's None (the column is nullable); "text" is any non-empty string
\* (a recording, a TTS audio, or neither: one audio locator at most per item).
\* The items of a sequence of several carry all their texts but the Catalan one
Items == { it \in [text_catalan : {None, "text"}, text_tachelhit : {"text"},
                   text_arabic : {"text"}, image_url : {None, Loc},
                   audio_url : {None, Loc}, audio_tts_url : {None, Loc}] :
             it.audio_url = None \/ it.audio_tts_url = None }

\* the empty dict {}
EmptyDict == [text_catalan |-> Absent, text_tachelhit |-> Absent, text_arabic |-> Absent,
              image_url |-> Absent, audio_url |-> Absent, audio_tts_url |-> Absent]

\* the items a job of one item is given: every text present, empty, None or
\* (text_catalan) missing from the dict, any photo of the store; and {}
AnyItems == { it \in [text_catalan : {Absent, None, "", "text"},
                      text_tachelhit : {None, "text"}, text_arabic : {None, "text"},
                      image_url : {None} \cup PhotoLocs,
                      audio_url : {None, Loc}, audio_tts_url : {None, Loc}] :
                it.audio_url = None \/ it.audio_tts_url = None }
            \cup { EmptyDict }

RECURSIVE SeqsUpTo(_, _)
SeqsUpTo(S, n) ==
    IF n = 0 THEN { <<>> }
    ELSE LET shorter == SeqsUpTo(S, n - 1)
         IN  shorter \cup { Append(s, x) : s \in { t \in shorter : Len(t) = n - 1 }, x \in S }

VARIABLES
    variant,          \* which source file runs: "backend" or "hf"
    mode,             \* the requested type: "short", "demo", or "other"
    params,           \* state of the entry point's arguments, see Params
    use_cloudinary,   \* bool(os.getenv("CLOUDINARY_CLOUD_NAME"))
    drills_data,      \* the items (short: exactly one, drill_data)
    output_filename,
    pc,               \* position of the job in its generator
    idx,              \* demo: index of the next item of the for loop
    files,            \* paths that exist on the local disk
    tmp_count,        \* number of NamedTemporaryFile files created so far
    tmp_made,         \* temp paths this job has created (history)
    img,              \* the frame composed last (short: img; demo: bg of the loop)
    audio_of,         \* handle -> temp path of the audio file it reads (hf)
    audio_log,        \* per item processed: what loading its audio did
    clips,            \* short: <<video_clip>>; demo: the list clips
    final_clip,       \* what write_videofile is called on (NoClip before)
    open_handles,     \* media handles opened and not yet closed
    remote,           \* public ids held by the object storage
    result,           \* what the generator returned or raised
    response,         \* the payload the entry point returned (NoResponse before)
    \* --- main.py, POST /generate-short/{drill_id}, requests served concurrently
    now,              \* int(datetime.now().timestamp())
    jobs,             \* request -> its position, drill and filename
    disk,             \* the files of media/shorts: path, last writer, complete?
    shorts,           \* the rows of YouTubeShortModel
    short_answer,     \* what DELETE /shorts/{short_id} answered last
    \* --- main.py, PUT /drills/{drill_id}
    drill_row,        \* the committed row of the drill (NoDrill: there is none)
    drill,            \* the session's object for the row, with pending changes
    update_dict,      \* update_data.model_dump(exclude_unset=True)
    enrich,           \* what the translation and the TTS call did
    upc,              \* position of the request in update_drill
    uresponse,        \* what update_drill answered
    \* --- main.py, POST /video-processing/submit and its background task
    vjobs,            \* the rows of VideoProcessingJobModel, by id
    vtasks,           \* the background tasks added, in order, with their position
    vanswer,          \* what the last video-processing request was answered
    \* --- main.py, POST /generate-drillplayer-demo/{test_id}
    demo_test,        \* the row of tests the request names (or that there is none)
    demo_db,          \* the ids of the rows of drills
    demo_pc,          \* position of the request in generate_drillplayer_demo
    drills,           \* what the query for the test's drills returned
    demo_items,       \* the ids of drills_data as handed to generate_demo
    demo_answer,      \* what the endpoint answered
    \* --- main.py, POST /import-data/
    imp_db,           \* the committed rows of drills, tests and test_attempts
    imp_pending,      \* the rows added in the open transaction of the session
    data,             \* the payload: the records of each table
    imp_pc,           \* the table whose loop runs, "commit", "done" or "failed"
    imp_i,            \* index of the next record of that loop
    imported,         \* the counts of the answer
    imp_round,        \* how many times the payload has been posted
    imp_answer,       \* the status import_data answered
    \* --- main.py, POST /upload-media/{drill_id}/{media_type}
    up_req,           \* the request: media type, drill id, file name and size
    up_row,           \* the committed row of drill 1
    up_files,         \* the files stored, locally or in the object storage
    up_url,           \* url, once the file is stored
    up_pc,            \* position of the request in upload_media
    up_answer         \* what upload_media answered

gen == << variant, mode, params, use_cloudinary, drills_data, output_filename, pc, idx,
          files, tmp_count, tmp_made, img, audio_of, audio_log, clips, final_clip,
          open_handles, remote, result, response >>

server == << now, jobs, disk, shorts, short_answer >>

crud == << drill_row, drill, update_dict, enrich, upc, uresponse >>

video == << vjobs, vtasks, vanswer >>

demo_api == << demo_test, demo_db, demo_pc, drills, demo_items, demo_answer >>

import_api == << imp_db, imp_pending, data, imp_pc, imp_i, imported, imp_round, imp_answer >>

upload_api == << up_req, up_row, up_files, up_url, up_pc, up_answer >>

api == << video, demo_api, import_api, upload_api >>

vars == << gen, server, crud, api >>

\* everything but the video-processing endpoints
not_video == << gen, server, crud, demo_api, import_api, upload_api >>

\* everything but the demo endpoint
not_demo_api == << gen, server, crud, video, import_api, upload_api >>

\* everything but the import endpoint
not_import_api == << gen, server, crud, video, demo_api, upload_api >>

\* everything but the upload endpoint
not_upload_api == << gen, server, crud, video, demo_api, import_api >>

inputs == << variant, mode, params, use_cloudinary, drills_data, output_filename >>

\* ------------------------------------------------------------ pure helpers
Max(a, b) == IF a >= b THEN a ELSE b

\* SHORTS_DIR of the running module
SHORTS_DIR == IF variant = "backend" THEN "media/shorts" ELSE "shorts_output"

\* os.path.join(dir, name)
PathJoin(dir, name) == [store |-> "local", dir |-> dir, name |-> name]

\* f"temp_{output_filename}.png"
TempImgName(filename) == <<"temp_">> \o filename \o <<".png">>

temp_img_path == PathJoin(SHORTS_DIR, TempImgName(output_filename))

\* faulty variant: the output is written next to, not inside, the output directory
output_path_no_dir == PathJoin("media", output_filename)

\* output_path = os.path.join(SHORTS_DIR, output_filename)
output_path == PathJoin(SHORTS_DIR, output_filename)

\* tempfile.NamedTemporaryFile(delete=False, suffix=...): a fresh name
TmpPath(n, suffix) == PathJoin("/tmp", <<"tmp", ToString(n), suffix>>)

\* os.path.splitext(output_filename)[0]
SplitExtRoot(filename) ==
    IF Len(filename) > 1 /\ filename[Len(filename)] \in Extensions
    THEN SubSeq(filename, 1, Len(filename) - 1)
    ELSE filename

\* result['secure_url'] of cloudinary.uploader.upload(folder=..., public_id=...)
SecureUrl(filename) ==
    [store |-> "remote", dir |-> "tachelhit/shorts", name |-> SplitExtRoot(filename)]

\* faulty variant: both modes read audio_url
AudioLocatorAlwaysUrl(item) == Get(item, "audio_url")

\* the locator the mode reads as the item's audio
AudioLocator(item) ==
    IF mode = "short" THEN Get(item, "audio_url") ELSE Get(item, "audio_tts_url")

\* faulty variant: the margin is added but the minimum is not kept
ShortDurationNoMin(d) == d + ShortAudioMargin

\* duration = max(duration, audio_clip.duration + 0.5)
ShortDuration(d) == Max(ShortMinDuration, d + ShortAudioMargin)

\* faulty variant: the demo loop uses no margin at all
DemoDurationNoMargin(d) == Max(DemoMinDuration, d)

\* clip.with_duration(max(5.0, audio_clip.duration + 1.0))
DemoDuration(d) == Max(DemoMinDuration, d + DemoAudioMargin)

\* ImageClip(img_array, duration=...): a clip with one visual stream, no audio
ImageClip(kind, item, photo, dur) ==
    [kind |-> kind, item |-> item, photo |-> photo, dur |-> dur,
     audio |-> <<>>, parts |-> <<>>]

\* no clip yet (final_clip before it is assigned)
NoClip == [kind |-> "none", item |-> 0, photo |-> FALSE, dur |-> 0,
           audio |-> <<>>, parts |-> <<>>]

\* clip.with_audio(audio_clip): the clip's audio becomes that one stream
WithAudio(clip, d) == [clip EXCEPT !.audio = <<d>>]

\* clip.with_duration(t)
WithDuration(clip, t) == [clip EXCEPT !.dur = t]

RECURSIVE SumDur(_)
SumDur(cs) == IF cs = <<>> THEN 0 ELSE cs[1].dur + SumDur(Tail(cs))

\* concatenate_videoclips(clips, method="compose"): the clips play one after
\* the other, the result lasts the sum of their durations
ConcatenateVideoclips(cs) ==
    [kind |-> "concat", item |-> 0, photo |-> FALSE, dur |-> SumDur(cs),
     audio |-> <<>>, parts |-> cs]

\* the timeline a (possibly nested) concatenation plays: its leaves in order
RECURSIVE FlattenSeq(_)
Flatten(c) == IF c.kind = "concat" THEN FlattenSeq(c.parts) ELSE <<c>>
FlattenSeq(cs) == IF cs = <<>> THEN <<>> ELSE Flatten(cs[1]) \o FlattenSeq(Tail(cs))

Timeline == IF final_clip = NoClip THEN <<>> ELSE Flatten(final_clip)

NoValue == [store |-> "none", dir |-> "", name |-> <<>>]
NoResult == [kind |-> "none", value |-> NoValue]
Returned(v) == [kind |-> "return", value |-> v]
Raised(e) == [kind |-> "raise", value |-> [store |-> "error", dir |-> "", name |-> <<e>>]]

\* f"/media/shorts/{filename}"
MediaUrl(filename) == [store |-> "url", dir |-> "/media/shorts", name |-> filename]

\* the payloads of the entry points
NoResponse == [kind |-> "none", video_path |-> NoValue, error |-> ""]
VideoPayload(v) == [kind |-> "video", video_path |-> v, error |-> ""]
ErrorPayload(e) == [kind |-> "error", video_path |-> NoValue, error |-> e]
\* an exception that leaves the entry point
Escaped(e) == [kind |-> "exception", video_path |-> NoValue, error |-> e]

\* --------------------------------------------------------- frame composer
\* Python truth value of drill.get(key): None and the empty string are false
Truthy(v) == v \notin {None, Absent, ""}

Abs(n) == IF n < 0 THEN 0 - n ELSE n

\* draw.textbbox((0, 0), text, font): the width the font gives the text
TextWidth(t) == IF t = "text" THEN 300 ELSE 0

\* PIL Image.thumbnail(box): the size is kept when it fits the box; else the
\* image is shrunk to the box keeping its aspect ratio, the free side rounded
\* down or up, whichever is nearer the ratio (down on a tie), and at least 1
Thumbnail(size, box) ==
    LET w == size[1]
        h == size[2]
        x == box[1]
        y == box[2]
    IN  IF x >= w /\ y >= h THEN size
        ELSE IF x * h >= w * y
             THEN LET f == (y * w) \div h
                      c == IF f * h = y * w THEN f ELSE f + 1
                      n == IF Abs(w * y - f * h) <= Abs(w * y - c * h) THEN f ELSE c
                  IN  << Max(n, 1), y >>
             ELSE LET f == (x * h) \div w
                      c == IF f * w = x * h THEN f ELSE f + 1
                      n == IF f = 0 THEN f
                           ELSE IF Abs(w * f - x * h) * c <= Abs(w * c - x * h) * f
                                THEN f ELSE c
                  IN  << x, Max(n, 1) >>

\* no frame composed yet
NoFrame == [composed |-> FALSE, photo |-> FALSE, canvas |-> <<0, 0>>, photo_at |-> <<>>,
            photo_size |-> <<>>, counter |-> <<>>, bands |-> {}]

\* faulty variant: the Catalan band is drawn for every text that is not None,
\* the empty string included
ShortBandsNotNone(item) ==
    (IF Get(item, "text_catalan") # None
     THEN { [text |-> "catalan", x |-> (SHORT_WIDTH - TextWidth(item.text_catalan)) \div 2,
             y0 |-> 100, y1 |-> 200] } ELSE {})
    \cup (IF Truthy(Get(item, "text_arabic"))
          THEN { [text |-> "arabic", x |-> (SHORT_WIDTH - TextWidth(item.text_arabic)) \div 2,
                  y0 |-> 230, y1 |-> 310] } ELSE {})
    \cup (IF Truthy(Get(item, "text_tachelhit"))
          THEN { [text |-> "tachelhit", x |-> (SHORT_WIDTH - TextWidth(item.text_tachelhit)) \div 2,
                  y0 |-> SHORT_HEIGHT - 200 - 20, y1 |-> SHORT_HEIGHT - 200 + 80] } ELSE {})

\* the text overlays of a short frame: each text that is true gets a black
\* rectangle of fixed vertical extent y0..y1, centred horizontally on x
ShortBands(item) ==
    (IF Truthy(Get(item, "text_catalan"))
     THEN { [text |-> "catalan", x |-> (SHORT_WIDTH - TextWidth(item.text_catalan)) \div 2,
             y0 |-> 100, y1 |-> 200] } ELSE {})
    \cup (IF Truthy(Get(item, "text_arabic"))
          THEN { [text |-> "arabic", x |-> (SHORT_WIDTH - TextWidth(item.text_arabic)) \div 2,
                  y0 |-> 230, y1 |-> 310] } ELSE {})
    \cup (IF Truthy(Get(item, "text_tachelhit"))
          THEN { [text |-> "tachelhit", x |-> (SHORT_WIDTH - TextWidth(item.text_tachelhit)) \div 2,
                  y0 |-> SHORT_HEIGHT - 200 - 20, y1 |-> SHORT_HEIGHT - 200 + 80] } ELSE {})

\* faulty variant: the photo is pasted at the top-left corner of its box
ShortPhotoAtCorner(size) == << 100, 400 >>

\* x = (SHORT_WIDTH - drill_img.width) // 2; y = (SHORT_HEIGHT - drill_img.height) // 2
ShortPhotoAt(size) == << (SHORT_WIDTH - size[1]) \div 2, (SHORT_HEIGHT - size[2]) \div 2 >>

\* the frame of generate_youtube_short[_hf]: the photo, when it loaded (o = "ok"),
\* shrunk into (SHORT_WIDTH - 200, SHORT_HEIGHT - 800) and pasted, then the bands
ShortFrame(item, o) ==
    LET size == Thumbnail(PhotoSize(item.image_url), << SHORT_WIDTH - 200, SHORT_HEIGHT - 800 >>)
    IN  [composed |-> TRUE, photo |-> (o = "ok"),
         canvas |-> << SHORT_WIDTH, SHORT_HEIGHT >>,
         photo_at |-> IF o = "ok" THEN ShortPhotoAt(size) ELSE <<>>,
         photo_size |-> IF o = "ok" THEN size ELSE <<>>,
         counter |-> <<>>,
         bands |-> ShortBands(item)]

\* text_x = img_x + 320 if drill.get('image_url') else img_x
DemoTextX(item, o) == IF Truthy(Get(item, "image_url")) THEN 60 + 320 ELSE 60

\* the labelled texts of a demo frame: label at y0, text at y1, both at x
DemoBands(item, text_x) ==
    LET text_y == 80 + 30
    IN  (IF Truthy(Get(item, "text_catalan"))
         THEN { [text |-> "catalan", x |-> text_x, y0 |-> text_y, y1 |-> text_y + 30] }
         ELSE {})
        \cup (IF Truthy(Get(item, "text_tachelhit"))
              THEN { [text |-> "tachelhit", x |-> text_x, y0 |-> text_y + 80, y1 |-> text_y + 110] }
              ELSE {})
        \cup (IF Truthy(Get(item, "text_arabic"))
              THEN { [text |-> "arabic", x |-> text_x, y0 |-> text_y + 160, y1 |-> text_y + 190] }
              ELSE {})

\* the frame bg of one pass of the demo loop, item i of n: the counter, the
\* photo shrunk into (300, 200) and pasted at (img_x, img_y), the texts
DemoFrame(item, o, i, n) ==
    LET content_top == 80
        img_x == 60
        img_y == content_top + 30
    IN  [composed |-> TRUE, photo |-> (o = "ok"),
         canvas |-> << DEMO_WIDTH, DEMO_HEIGHT >>,
         photo_at |-> IF o = "ok" THEN << img_x, img_y >> ELSE <<>>,
         photo_size |-> IF o = "ok" THEN Thumbnail(PhotoSize(item.image_url), << 300, 200 >>)
                        ELSE <<>>,
         counter |-> << i, n >>,
         bands |-> DemoBands(item, DemoTextX(item, o))]

\* ------------------------------------------------------ asset store answers
\* what loading the photo can do: backend reads media/<path> (os.path.exists,
\* Image.open); hf downloads to a temp file, then Image.open
ImageOutcomes(loc) ==
    IF loc = None THEN {"absent"}
    ELSE IF variant = "backend" THEN {"missing", "error", "ok"}
    ELSE {"fetch_error", "error", "ok"}

\* what loading the audio can do: as for the photo, with AudioFileClip; a
\* loaded audio has a duration d
AudioOutcomes(loc) ==
    IF loc = None THEN { [kind |-> "absent", d |-> 0] }
    ELSE { [kind |-> k, d |-> 0] :
             k \in IF variant = "backend" THEN {"missing", "error"}
                   ELSE {"fetch_error", "error"} }
         \cup { [kind |-> "ok", d |-> d] : d \in AudioDurations }

\* faulty variant: audio_clip is also set when the file exists but does not decode
AudioLoadedOnError(a) == a.kind \in {"ok", "error"}

\* audio_clip was set: AudioFileClip(audio_path) returned.  Every other answer
\* leaves audio_clip = None (os.path.exists false, or the except clause)
AudioLoaded(a) == a.kind = "ok"

\* hf only: the download wrote a NamedTemporaryFile (the fetch succeeded)
TmpCreated(kind) == variant = "hf" /\ kind \in {"error", "ok"}

\* hf only: os.unlink(path) is the last statement of the try block, so it is
\* skipped when the open/decode before it raised
TmpLeft(kind) == variant = "hf" /\ kind = "error"

\* the temp files a photo load and an audio load create, and those they leave
ImageTmp(o) == IF TmpCreated(o) THEN { TmpPath(tmp_count, ".jpg") } ELSE {}
AudioTmp(a, n) == IF TmpCreated(a.kind) THEN { TmpPath(n, ".mp3") } ELSE {}

\* ------------------------------------------------------------------- Init
\* the server of main.py before any request
JobIds == 1..MaxJobs
DrillIds == {1, 2}
IdleJob == [pc |-> "idle", drill_id |-> 0, filename |-> <<>>]
ServerIdle ==
    /\ now = 0
    /\ jobs = [j \in JobIds |-> IdleJob]
    /\ disk = {}
    /\ shorts = {}
    /\ short_answer = [id |-> 0, status |-> 0]

\* a field update_data leaves unset (dropped by exclude_unset=True)
Unset == "Unset"

\* no drill row / no drill object
NoDrill == [id |-> 0, text_catalan |-> None, text_tachelhit |-> None,
            text_arabic |-> None, audio_tts_url |-> None]
NoUpdate == [text_catalan |-> Unset, text_tachelhit |-> Unset,
             text_arabic |-> Unset, audio_tts_url |-> Unset]
NoAnswer == [status |-> 0, body |-> NoDrill]

\* no PUT /drills request is being served
CrudIdle ==
    /\ drill_row = NoDrill /\ drill = NoDrill /\ update_dict = NoUpdate
    /\ enrich = [translate |-> "none", tts |-> "none"]
    /\ upc = "idle" /\ uresponse = NoAnswer

\* no video-processing job has been submitted
NoVideoAnswer == [op |-> "none", source_url |-> None, file |-> None, status |-> 0,
                  id |-> 0, job_status |-> None]
VideoIdle ==
    /\ vjobs = <<>> /\ vtasks = <<>> /\ vanswer = NoVideoAnswer

\* no demo request is being served
NoTest == [exists |-> FALSE, drill_ids |-> <<>>]
NoDemoAnswer == [status |-> 0, detail |-> "", drill_count |-> 0]
DemoApiIdle ==
    /\ demo_test = NoTest /\ demo_db = {} /\ demo_pc = "idle"
    /\ drills = <<>> /\ demo_items = <<>> /\ demo_answer = NoDemoAnswer

\* no import has been posted
Tables == { "drills", "tests", "test_attempts" }
EmptyTables == [t \in Tables |-> {}]
NoCounts == [drills |-> 0, tests |-> 0, test_attempts |-> 0, skipped |-> 0]
ImportIdle ==
    /\ imp_db = EmptyTables /\ imp_pending = EmptyTables
    /\ data = [t \in Tables |-> <<>>]
    /\ imp_pc = "idle" /\ imp_i = 1 /\ imported = NoCounts
    /\ imp_round = 0 /\ imp_answer = 0

\* no upload is being served
NoUpload == [media_type |-> "", drill_id |-> 0, filename |-> <<>>, size |-> 0,
             use_cloudinary |-> FALSE]
NoUrl == [store |-> "none", dir |-> "", name |-> <<>>]
NoUploadAnswer == [status |-> 0, url |-> NoUrl]
StoredDrill == [id |-> 1, text_catalan |-> "hola",
                audio_url |-> [store |-> "url", dir |-> "audio", name |-> <<"old">>],
                video_url |-> NoUrl,
                image_url |-> [store |-> "url", dir |-> "image", name |-> <<"old">>]]
UploadIdle ==
    /\ up_req = NoUpload /\ up_row = StoredDrill /\ up_files = {}
    /\ up_url = NoUrl /\ up_pc = "idle" /\ up_answer = NoUploadAnswer

\* none of the other endpoints of main.py is being served
ApiIdle ==
    /\ VideoIdle
    /\ DemoApiIdle
    /\ ImportIdle
    /\ UploadIdle

Init ==
    /\ ServerIdle
    /\ ApiIdle
    /\ CrudIdle
    /\ variant \in Variants
    /\ mode \in VideoTypes
    /\ params \in IF variant = "hf" THEN Params ELSE Params \ {"bad_json"}
    /\ use_cloudinary \in BOOLEAN
    /\ output_filename \in Filenames
    /\ drills_data \in IF params # "ok" \/ mode = "other" THEN { <<>> }
                        ELSE IF mode = "short" THEN { <<it>> : it \in AnyItems }
                        ELSE SeqsUpTo(Items, MaxItems) \cup { <<it>> : it \in AnyItems }
    /\ pc = "entry"
    /\ idx = 1
    /\ files = {}
    /\ tmp_count = 0
    /\ tmp_made = {}
    /\ img = NoFrame
    /\ audio_of = {}
    /\ audio_log = <<>>
    /\ clips = <<>>
    /\ final_clip = NoClip
    /\ open_handles = {}
    /\ remote = {}
    /\ result = NoResult
    /\ response = NoResponse

\* ----------------------------------------------------------- entry points
\* the request the entry point answers itself.  api_generate: the type is
\* neither mode, or "if not drill_data" / "if not drills_data" (None, {} or []);
\* generate_video_api: the type is neither mode, or a required argument is None
Invalid ==
    \/ mode = "other"
    \/ params = "missing"
    \/ /\ variant = "backend"
       /\ \/ drills_data = <<>>
          \/ mode = "short" /\ drills_data # <<>> /\ drills_data[1] = EmptyDict

\* str(e) of the ValueError / the error string of the early return
RejectReason ==
    IF variant = "backend"
    THEN (IF mode = "short" THEN "Missing drill_data for short"
          ELSE IF mode = "demo" THEN "Missing drills_data for demo"
          ELSE "Invalid type")
    ELSE (IF mode = "short" THEN "Missing parameters for 'short' video type."
          ELSE IF mode = "demo" THEN "Missing parameters for 'demo' video type."
          ELSE "Unknown video_type")

\* the entry point answers an invalid request with an error payload (hf: the
\* ValueError it raises is caught by its own except clause)
EntryReject ==
    /\ pc = "entry" /\ Invalid
    /\ response' = ErrorPayload(RejectReason)
    /\ pc' = "rejected"
    /\ UNCHANGED << server, crud, api, inputs, idx, files, tmp_count, tmp_made, img, audio_of, audio_log, clips,
                    final_clip, open_handles, remote, result >>

\* the entry point calls the generator of the mode; check_moviepy() passes and
\* (hf) json.loads parses the data
EntryCall ==
    /\ pc = "entry" /\ ~Invalid /\ params = "ok"
    /\ pc' = IF mode = "short" THEN "frame" ELSE "item"
    /\ UNCHANGED << server, crud, api, inputs, response, idx, files, tmp_count, tmp_made, img, audio_of, audio_log,
                    clips, final_clip, open_handles, remote, result >>

\* check_moviepy() raises ImportError: MOVIEPY_AVAILABLE is False
GenImportError ==
    /\ pc = "entry" /\ ~Invalid
    /\ result' = Raised("ImportError: MoviePy not available")
    /\ pc' = "failed"
    /\ UNCHANGED << server, crud, api, inputs, response, idx, files, tmp_count, tmp_made, img, audio_of, audio_log,
                    clips, final_clip, open_handles, remote >>

\* hf: json.loads(drill_data_str) raises
HfJsonError ==
    /\ pc = "entry" /\ ~Invalid /\ params = "bad_json"
    /\ result' = Raised("JSONDecodeError")
    /\ pc' = "failed"
    /\ UNCHANGED << server, crud, api, inputs, response, idx, files, tmp_count, tmp_made, img, audio_of, audio_log,
                    clips, final_clip, open_handles, remote >>

\* the generator returned: the entry point returns the video payload
\* (api_generate: "/media/shorts/<filename>"; generate_video_api: result_url)
EntryReturn ==
    /\ pc = "done" /\ response = NoResponse
    /\ response' = VideoPayload(IF variant = "backend" THEN MediaUrl(output_filename)
                                ELSE result.value)
    /\ UNCHANGED << server, crud, api, inputs, pc, idx, files, tmp_count, tmp_made, img, audio_of, audio_log, clips,
                    final_clip, open_handles, remote, result >>

\* faulty variant: the except clause catches RuntimeError only
EntryExceptRuntimeOnly ==
    /\ pc = "failed" /\ response = NoResponse
    /\ response' = IF result.value.name = <<"RuntimeError: Failed to write video file">>
                   THEN ErrorPayload(result.value.name[1])
                   ELSE Escaped(result.value.name[1])
    /\ UNCHANGED << server, crud, api, inputs, pc, idx, files, tmp_count, tmp_made, img, audio_of, audio_log, clips,
                    final_clip, open_handles, remote, result >>

\* the generator raised: except Exception as e: return {"error": str(e)}
EntryExcept ==
    /\ pc = "failed" /\ response = NoResponse
    /\ response' = ErrorPayload(result.value.name[1])
    /\ UNCHANGED << server, crud, api, inputs, pc, idx, files, tmp_count, tmp_made, img, audio_of, audio_log, clips,
                    final_clip, open_handles, remote, result >>

\* ------------------------------------------------------------ short mode
\* generate_youtube_short[_hf]: compose the frame and save temp_<name>.png
ShortComposeFrame ==
    /\ pc = "frame" /\ mode = "short"
    /\ \E o \in ImageOutcomes(Get(drills_data[1], "image_url")) :
         /\ img' = ShortFrame(drills_data[1], o)
         /\ tmp_made' = tmp_made \cup ImageTmp(o)
         /\ tmp_count' = tmp_count + Cardinality(ImageTmp(o))
         /\ files' = files \cup (IF TmpLeft(o) THEN ImageTmp(o) ELSE {})
                            \cup { temp_img_path }
    /\ pc' = "audio"
    /\ UNCHANGED << server, crud, api, inputs, response, idx, audio_of, audio_log, clips, final_clip, open_handles, remote, result >>

\* generate_youtube_short[_hf]: load the audio, fix the duration, build video_clip
ShortLoadAudio ==
    /\ pc = "audio" /\ mode = "short"
    /\ \E a \in AudioOutcomes(AudioLocator(drills_data[1])) :
         LET tmp == AudioTmp(a, tmp_count)
             duration == IF AudioLoaded(a) THEN ShortDuration(a.d) ELSE ShortMinDuration
             video_clip == ImageClip("item", 1, img.photo, duration)
         IN  /\ tmp_made' = tmp_made \cup tmp
             /\ tmp_count' = tmp_count + Cardinality(tmp)
             /\ files' = files \cup (IF TmpLeft(a.kind) THEN tmp ELSE {})
             /\ clips' = << IF AudioLoaded(a) THEN WithAudio(video_clip, a.d) ELSE video_clip >>
             /\ audio_log' = Append(audio_log, a)
             /\ open_handles' = open_handles \cup { <<"video_clip", 1>> }
                                  \cup (IF AudioLoaded(a) THEN { <<"audio_clip", 1>> } ELSE {})
             /\ audio_of' = IF AudioLoaded(a)
                            THEN audio_of \cup { [handle |-> <<"audio_clip", 1>>, tmp |-> tmp] }
                            ELSE audio_of
    /\ final_clip' = clips'[1]
    /\ pc' = "encode"
    /\ UNCHANGED << server, crud, api, inputs, response, idx, img, remote, result >>

\* write_videofile succeeded, then the clean-up after it
ShortWriteOk ==
    /\ pc = "encode" /\ mode = "short"
    /\ files' = (files \cup { output_path }) \ { temp_img_path }
    /\ open_handles' = {}
    /\ pc' = "sink"
    /\ UNCHANGED << server, crud, api, inputs, response, idx, tmp_count, tmp_made, img, audio_of, audio_log, clips, final_clip,
                    remote, result >>

\* write_videofile raised: the except block cleans up and raises RuntimeError;
\* the encoder may have left a partly written output file
ShortWriteFail ==
    /\ pc = "encode" /\ mode = "short"
    /\ \E partial \in BOOLEAN :
         files' = (files \cup (IF partial THEN { output_path } ELSE {})) \ { temp_img_path }
    /\ open_handles' = {}
    /\ result' = Raised("RuntimeError: Failed to write video file")
    /\ pc' = "failed"
    /\ UNCHANGED << server, crud, api, inputs, response, idx, tmp_count, tmp_made, img, audio_of, audio_log, clips, final_clip, remote >>

\* ------------------------------------------------------------- demo mode
\* one pass of the for loop of generate_drillplayer_demo[_hf]
DemoItem ==
    /\ pc = "item" /\ mode = "demo" /\ idx <= Len(drills_data)
    /\ drills_data[idx].text_catalan # None
    /\ \E o \in ImageOutcomes(Get(drills_data[idx], "image_url")),
          a \in AudioOutcomes(AudioLocator(drills_data[idx])) :
         LET itmp == ImageTmp(o)
             atmp == AudioTmp(a, tmp_count + Cardinality(itmp))
             bg == DemoFrame(drills_data[idx], o, idx, Len(drills_data))
             clip == ImageClip("item", idx, bg.photo, DemoMinDuration)
         IN  /\ img' = bg
             /\ tmp_made' = tmp_made \cup itmp \cup atmp
             /\ tmp_count' = tmp_count + Cardinality(itmp) + Cardinality(atmp)
             /\ files' = files \cup (IF TmpLeft(o) THEN itmp ELSE {})
                                \cup (IF TmpLeft(a.kind) THEN atmp ELSE {})
             /\ clips' = Append(clips,
                     IF AudioLoaded(a)
                     THEN WithAudio(WithDuration(clip, DemoDuration(a.d)), a.d)
                     ELSE clip)
             /\ audio_log' = Append(audio_log, a)
             /\ open_handles' = open_handles \cup { <<"clip", idx>> }
                                  \cup (IF AudioLoaded(a) THEN { <<"audio_clip", idx>> } ELSE {})
             /\ audio_of' = IF AudioLoaded(a)
                            THEN audio_of \cup { [handle |-> <<"audio_clip", idx>>, tmp |-> atmp] }
                            ELSE audio_of
    /\ idx' = idx + 1
    /\ UNCHANGED << server, crud, api, inputs, response, pc, final_clip, remote, result >>

\* the print at the head of the loop body: drill.get('text_catalan', 'No text')
\* is None when the key is present with value None, and None[:30] raises
DemoItemTypeError ==
    /\ pc = "item" /\ mode = "demo" /\ idx <= Len(drills_data)
    /\ drills_data[idx].text_catalan = None
    /\ result' = Raised("TypeError: 'NoneType' object is not subscriptable")
    /\ pc' = "failed"
    /\ UNCHANGED << server, crud, api, inputs, response, idx, files, tmp_count, tmp_made, img, audio_of, audio_log, clips,
                    final_clip, open_handles, remote >>

\* if not clips: raise Exception("No drills to generate demo video")
DemoNoDrills ==
    /\ pc = "item" /\ mode = "demo" /\ idx > Len(drills_data)
    /\ clips = <<>>
    /\ result' = Raised("Exception: No drills to generate demo video")
    /\ pc' = "failed"
    /\ UNCHANGED << server, crud, api, inputs, response, idx, files, tmp_count, tmp_made, img, audio_of, audio_log, clips,
                    final_clip, open_handles, remote >>

\* faulty variant: the intro card lasts as long as an item
intro_clip_long == ImageClip("intro", 0, FALSE, DemoMinDuration)

\* intro_clip = ImageClip(intro_array, duration=3.0)
intro_clip == ImageClip("intro", 0, FALSE, IntroDuration)

\* outro_clip = ImageClip(outro_array, duration=3.0)
outro_clip == ImageClip("outro", 0, FALSE, OutroDuration)

\* faulty variant: the outro is left out of the list
DemoSequenceNoOutro(inner) == << intro_clip, inner >>

\* the list handed to the second concatenate_videoclips
DemoSequence(inner) == << intro_clip, inner, outro_clip >>

\* concatenate the item clips, then intro + that + outro
DemoAssemble ==
    /\ pc = "item" /\ mode = "demo" /\ idx > Len(drills_data)
    /\ clips # <<>>
    /\ final_clip' = ConcatenateVideoclips(DemoSequence(ConcatenateVideoclips(clips)))
    /\ open_handles' = open_handles \cup { <<"concat", 0>>, <<"intro_clip", 0>>,
                                            <<"outro_clip", 0>>, <<"final_clip", 0>> }
    /\ pc' = "encode"
    /\ UNCHANGED << server, crud, api, inputs, response, idx, files, tmp_count, tmp_made, img, audio_of, audio_log, clips,
                    remote, result >>

\* what the finally block closes
DemoClosed == { <<"final_clip", 0>>, <<"intro_clip", 0>>, <<"outro_clip", 0>> }

\* write_videofile succeeded; finally: close final, intro, outro
DemoWriteOk ==
    /\ pc = "encode" /\ mode = "demo"
    /\ files' = files \cup { output_path }
    /\ open_handles' = open_handles \ DemoClosed
    /\ pc' = "sink"
    /\ UNCHANGED << server, crud, api, inputs, response, idx, tmp_count, tmp_made, img, audio_of, audio_log, clips, final_clip,
                    remote, result >>

\* write_videofile raised; finally: close final, intro, outro; the exception
\* propagates; the encoder may have left a partly written output file
DemoWriteFail ==
    /\ pc = "encode" /\ mode = "demo"
    /\ \E partial \in BOOLEAN :
         files' = files \cup (IF partial THEN { output_path } ELSE {})
    /\ open_handles' = open_handles \ DemoClosed
    /\ result' = Raised("write_videofile error")
    /\ pc' = "failed"
    /\ UNCHANGED << server, crud, api, inputs, response, idx, tmp_count, tmp_made, img, audio_of, audio_log, clips, final_clip, remote >>

\* ------------------------------------------------------------ hf fetches
\* the step the job is at begins with requests.get(locator, stream=True)
AtFetch ==
    /\ variant = "hf"
    /\ \/ pc = "frame" /\ Truthy(Get(drills_data[1], "image_url"))
       \/ pc = "audio" /\ Truthy(AudioLocator(drills_data[1]))
       \/ /\ pc = "item" /\ idx <= Len(drills_data)
          /\ drills_data[idx].text_catalan # None
          /\ \/ Truthy(Get(drills_data[idx], "image_url"))
             \/ Truthy(AudioLocator(drills_data[idx]))

\* requests.get is called without a timeout: a server that accepts the
\* connection and never answers keeps the call, and the job, waiting forever
HfFetchBlocks ==
    /\ AtFetch
    /\ pc' = "blocked"
    /\ UNCHANGED << server, crud, api, inputs, response, idx, files, tmp_count, tmp_made, img, audio_of, audio_log,
                    clips, final_clip, open_handles, remote, result >>

\* ----------------------------------------------------------- output sink
\* faulty variant: the credential is never consulted
UploadsNever == FALSE

\* does this generator upload?  Only hf_space_app.py reads CLOUDINARY_CLOUD_NAME
\* after the encode; backend/shorts_generator.py has no upload at all
Uploads == variant = "hf" /\ use_cloudinary

\* return output_path (backend) / return output_path_local (hf, else branch)
ReturnLocal ==
    /\ pc = "sink" /\ ~Uploads
    /\ result' = Returned(output_path)
    /\ pc' = "done"
    /\ UNCHANGED << server, crud, api, inputs, response, idx, files, tmp_count, tmp_made, img, audio_of, audio_log, clips,
                    final_clip, open_handles, remote >>

\* cloudinary.uploader.upload(output_path_local, ...) returned
HfUploadOk ==
    /\ pc = "sink" /\ Uploads
    /\ remote' = remote \cup { SecureUrl(output_filename) }
    /\ pc' = "unlink"
    /\ UNCHANGED << server, crud, api, inputs, response, idx, files, tmp_count, tmp_made, img, audio_of, audio_log, clips,
                    final_clip, open_handles, result >>

\* faulty variant: the local file is removed although the upload raised
HfUploadFailUnlinks ==
    /\ pc = "sink" /\ variant = "hf" /\ use_cloudinary
    /\ files' = files \ { PathJoin(SHORTS_DIR, output_filename) }
    /\ result' = Raised("cloudinary upload error")
    /\ pc' = "failed"
    /\ UNCHANGED << server, crud, api, inputs, response, idx, tmp_count, tmp_made, img, audio_of, audio_log, clips,
                    final_clip, open_handles, remote >>

\* cloudinary.uploader.upload raised: nothing catches it in the generator
HfUploadFail ==
    /\ pc = "sink" /\ Uploads
    /\ result' = Raised("cloudinary upload error")
    /\ pc' = "failed"
    /\ UNCHANGED << server, crud, api, inputs, response, idx, files, tmp_count, tmp_made, img, audio_of, audio_log, clips,
                    final_clip, open_handles, remote >>

\* os.unlink(output_path_local); return result['secure_url']
HfUnlinkReturn ==
    /\ pc = "unlink"
    /\ files' = files \ { output_path }
    /\ result' = Returned(SecureUrl(output_filename))
    /\ pc' = "done"
    /\ UNCHANGED << server, crud, api, inputs, response, idx, tmp_count, tmp_made, img, audio_of, audio_log, clips, final_clip,
                    open_handles, remote >>

Next ==
    \/ EntryReject
    \/ EntryCall
    \/ GenImportError
    \/ HfJsonError
    \/ EntryReturn
    \/ EntryExcept
    \/ ShortComposeFrame
    \/ ShortLoadAudio
    \/ ShortWriteOk
    \/ ShortWriteFail
    \/ DemoItem
    \/ DemoItemTypeError
    \/ DemoNoDrills
    \/ DemoAssemble
    \/ DemoWriteOk
    \/ DemoWriteFail
    \/ HfFetchBlocks
    \/ ReturnLocal
    \/ HfUploadOk
    \/ HfUploadFail
    \/ HfUnlinkReturn

Spec == Init /\ [][Next]_vars

\* ======================================================================
\* main.py: POST /generate-short/{drill_id}, several requests at once.  The
\* endpoint is a plain def, which the framework runs on a thread pool: the
\* requests interleave at every file-system call of generate_youtube_short
\* ======================================================================
\* no generator job of the first part is running
GenIdle ==
    /\ variant = "backend" /\ mode = "short" /\ params = "ok" /\ use_cloudinary = FALSE
    /\ drills_data = <<>> /\ output_filename = <<>>
    /\ pc = "off" /\ idx = 1
    /\ files = {} /\ tmp_count = 0 /\ tmp_made = {}
    /\ img = NoFrame /\ audio_of = {} /\ audio_log = <<>>
    /\ clips = <<>> /\ final_clip = NoClip /\ open_handles = {} /\ remote = {}
    /\ result = NoResult /\ response = NoResponse

\* filename = f"short_{drill_id}_{int(datetime.now().timestamp())}.mp4"
ShortFilename(drill_id, t) == << "short_", ToString(drill_id), "_", ToString(t), ".mp4" >>

\* the paths generate_youtube_short derives from the filename
JobOutputPath(j) == PathJoin("media/shorts", jobs[j].filename)
JobTempPath(j) == PathJoin("media/shorts", TempImgName(jobs[j].filename))

\* open(path, "w") by job j: the file is created or truncated
Written(p, j, complete) ==
    { f \in disk : f.path # p } \cup { [path |-> p, owner |-> j, complete |-> complete] }

\* os.remove(path)
Removed(p) == { f \in disk : f.path # p }

JobsInit ==
    /\ GenIdle
    /\ ServerIdle
    /\ ApiIdle
    /\ CrudIdle

\* the wall clock reaches the next second
Tick ==
    /\ now < MaxNow
    /\ now' = now + 1
    /\ UNCHANGED << gen, crud, api, short_answer, jobs, disk, shorts >>

\* a request arrives for an existing drill: the filename is fixed from the
\* drill id and the current second
GenerateShortRequest(j) ==
    /\ jobs[j].pc = "idle"
    /\ \E d \in DrillIds :
         jobs' = [jobs EXCEPT ![j] = [pc |-> "frame", drill_id |-> d,
                                      filename |-> ShortFilename(d, now)]]
    /\ UNCHANGED << gen, crud, api, short_answer, now, disk, shorts >>

\* img.save(temp_img_path)
JobSaveFrame(j) ==
    /\ jobs[j].pc = "frame"
    /\ disk' = Written(JobTempPath(j), j, TRUE)
    /\ jobs' = [jobs EXCEPT ![j].pc = "encode"]
    /\ UNCHANGED << gen, crud, api, short_answer, now, shorts >>

\* write_videofile(output_path, ...) opens the output file and starts writing
JobWriteBegin(j) ==
    /\ jobs[j].pc = "encode"
    /\ disk' = Written(JobOutputPath(j), j, FALSE)
    /\ jobs' = [jobs EXCEPT ![j].pc = "writing"]
    /\ UNCHANGED << gen, crud, api, short_answer, now, shorts >>

\* write_videofile returns: the file is this job's complete video unless
\* another writer opened the same path in the meantime
JobWriteEnd(j) ==
    /\ jobs[j].pc = "writing"
    /\ disk' = IF [path |-> JobOutputPath(j), owner |-> j, complete |-> FALSE] \in disk
               THEN Written(JobOutputPath(j), j, TRUE)
               ELSE disk
    /\ jobs' = [jobs EXCEPT ![j].pc = "cleanup"]
    /\ UNCHANGED << gen, crud, api, short_answer, now, shorts >>

\* write_videofile raises: the except block removes the frame image and
\* raises; the endpoint answers 500
JobWriteFail(j) ==
    /\ jobs[j].pc = "writing"
    /\ disk' = Removed(JobTempPath(j))
    /\ jobs' = [jobs EXCEPT ![j].pc = "failed"]
    /\ UNCHANGED << gen, crud, api, short_answer, now, shorts >>

\* if os.path.exists(temp_img_path): os.remove(temp_img_path)
JobCleanup(j) ==
    /\ jobs[j].pc = "cleanup"
    /\ disk' = Removed(JobTempPath(j))
    /\ jobs' = [jobs EXCEPT ![j].pc = "row"]
    /\ UNCHANGED << gen, crud, api, short_answer, now, shorts >>

\* the id the database gives the next row of youtube_shorts
NextShortId ==
    IF shorts = {} THEN 1
    ELSE 1 + CHOOSE m \in { r.id : r \in shorts } : \A r \in shorts : r.id <= m

\* the endpoint stores the YouTubeShortModel row and answers with its path
JobSaveRow(j) ==
    /\ jobs[j].pc = "row"
    /\ shorts' = shorts \cup { [id |-> NextShortId, job |-> j,
                                drill_id |-> jobs[j].drill_id,
                                video_path |-> MediaUrl(jobs[j].filename)] }
    /\ jobs' = [jobs EXCEPT ![j].pc = "done"]
    /\ UNCHANGED << gen, crud, api, short_answer, now, disk >>

\* the ids DELETE /shorts/{short_id} is called with
ShortIds == 1..(MaxJobs + 1)

\* video_path = f"media/{short.video_path.replace('/media/', '')}"
ShortFilePath(video_path) ==
    [store |-> "local",
     dir |-> IF video_path.dir = "/media/shorts" THEN "media/shorts" ELSE video_path.dir,
     name |-> video_path.name]

\* delete_short: no row has the id
DeleteShortNotFound(id) ==
    /\ \A r \in shorts : r.id # id
    /\ short_answer' = [id |-> id, status |-> 404]
    /\ UNCHANGED << gen, crud, api, now, jobs, disk, shorts >>

\* delete_short: the file is removed when it exists, then the row
DeleteShort(id) ==
    /\ \E r \in shorts :
         /\ r.id = id
         /\ disk' = Removed(ShortFilePath(r.video_path))
         /\ shorts' = shorts \ {r}
    /\ short_answer' = [id |-> id, status |-> 200]
    /\ UNCHANGED << gen, crud, api, now, jobs >>

\* delete_short: os.remove raises, the except block prints, the row is removed
DeleteShortFileError(id) ==
    /\ \E r \in shorts :
         /\ r.id = id
         /\ \E f \in disk : f.path = ShortFilePath(r.video_path)
         /\ shorts' = shorts \ {r}
    /\ short_answer' = [id |-> id, status |-> 200]
    /\ UNCHANGED << gen, crud, api, now, jobs, disk >>

JobsNext ==
    \/ Tick
    \/ \E j \in JobIds : GenerateShortRequest(j)
    \/ \E j \in JobIds : JobSaveFrame(j)
    \/ \E j \in JobIds : JobWriteBegin(j)
    \/ \E j \in JobIds : JobWriteEnd(j)
    \/ \E j \in JobIds : JobWriteFail(j)
    \/ \E j \in JobIds : JobCleanup(j)
    \/ \E j \in JobIds : JobSaveRow(j)
    \/ \E id \in ShortIds : DeleteShortNotFound(id)
    \/ \E id \in ShortIds : DeleteShort(id)
    \/ \E id \in ShortIds : DeleteShortFileError(id)

SpecJobs == JobsInit /\ [][JobsNext]_vars

\* ======================================================================
\* main.py: PUT /drills/{drill_id} (update_drill)
\* ======================================================================
DrillFields == {"text_catalan", "text_tachelhit", "text_arabic", "audio_tts_url"}

\* the rows the drill may have before the request, and the bodies sent
DrillRows ==
    [id : {1}, text_catalan : {None, "hola"}, text_tachelhit : {None},
     text_arabic : {None, "ar_old"}, audio_tts_url : {None, "tts_old"}]
UpdateDicts ==
    [text_catalan : {Unset, None, "", "adeu"}, text_tachelhit : {Unset, "azul"},
     text_arabic : {Unset, None, "ar_sent"}, audio_tts_url : {Unset, "tts_sent"}]

\* translator_ca_to_ar.translate(text), when it answers
Translate(text) == IF text = "adeu" THEN "ar_adeu" ELSE "ar_hola"

\* generate_catalan_tts(text, drill_id), when it returns: the URL of the audio
TtsUrl(text, id) == IF text = "adeu" THEN "tts_adeu" ELSE "tts_hola"

\* faulty variant: the fields the request leaves unset are written as None
AppliedAll(row, upd) ==
    [k \in DOMAIN row |->
        IF k \in DrillFields THEN (IF upd[k] = Unset THEN None ELSE upd[k]) ELSE row[k]]

\* for key, value in update_dict.items(): setattr(drill, key, value)
Applied(row, upd) ==
    [k \in DOMAIN row |->
        IF k \in DrillFields /\ upd[k] # Unset THEN upd[k] ELSE row[k]]

\* "text_catalan" in update_dict and update_dict["text_catalan"]
text_catalan_updated == update_dict.text_catalan \notin {Unset, None, ""}

DrillInit ==
    /\ GenIdle
    /\ ServerIdle
    /\ ApiIdle
    /\ drill_row \in DrillRows \cup { NoDrill }
    /\ drill = NoDrill
    /\ update_dict \in UpdateDicts
    /\ enrich = [translate |-> "none", tts |-> "none"]
    /\ upc = "request"
    /\ uresponse = NoAnswer

\* if not drill: raise HTTPException(status_code=404)
UpdateDrillNotFound ==
    /\ upc = "request" /\ drill_row = NoDrill
    /\ uresponse' = [status |-> 404, body |-> NoDrill]
    /\ upc' = "not_found"
    /\ UNCHANGED << gen, server, api, drill_row, drill, update_dict, enrich >>

\* the drill is loaded and the supplied fields are set on it
UpdateDrillApply ==
    /\ upc = "request" /\ drill_row # NoDrill
    /\ drill' = Applied(drill_row, update_dict)
    /\ upc' = IF text_catalan_updated THEN "translate" ELSE "commit"
    /\ UNCHANGED << gen, server, api, drill_row, update_dict, enrich, uresponse >>

\* drill.text_arabic = translator_ca_to_ar.translate(update_dict["text_catalan"])
UpdateTranslateOk ==
    /\ upc = "translate"
    /\ drill' = [drill EXCEPT !.text_arabic = Translate(update_dict.text_catalan)]
    /\ enrich' = [enrich EXCEPT !.translate = "ok"]
    /\ upc' = "tts"
    /\ UNCHANGED << gen, server, api, drill_row, update_dict, uresponse >>

\* faulty variant: a failed translation clears the Arabic text
UpdateTranslateFailClears ==
    /\ upc = "translate"
    /\ drill' = [drill EXCEPT !.text_arabic = None]
    /\ enrich' = [enrich EXCEPT !.translate = "fail"]
    /\ upc' = "tts"
    /\ UNCHANGED << gen, server, api, drill_row, update_dict, uresponse >>

\* the translation raised: except Exception: print(...)
UpdateTranslateFail ==
    /\ upc = "translate"
    /\ enrich' = [enrich EXCEPT !.translate = "fail"]
    /\ upc' = "tts"
    /\ UNCHANGED << gen, server, api, drill_row, drill, update_dict, uresponse >>

\* drill.audio_tts_url = generate_catalan_tts(update_dict["text_catalan"], drill_id)
UpdateTtsOk ==
    /\ upc = "tts"
    /\ drill' = [drill EXCEPT !.audio_tts_url = TtsUrl(update_dict.text_catalan, drill.id)]
    /\ enrich' = [enrich EXCEPT !.tts = "ok"]
    /\ upc' = "commit"
    /\ UNCHANGED << gen, server, api, drill_row, update_dict, uresponse >>

\* generate_catalan_tts raised (it prints and re-raises): except Exception: print(...)
UpdateTtsFail ==
    /\ upc = "tts"
    /\ enrich' = [enrich EXCEPT !.tts = "fail"]
    /\ upc' = "commit"
    /\ UNCHANGED << gen, server, api, drill_row, drill, update_dict, uresponse >>

\* db.commit(); db.refresh(drill); return drill
UpdateCommit ==
    /\ upc = "commit"
    /\ drill_row' = drill
    /\ uresponse' = [status |-> 200, body |-> drill]
    /\ upc' = "done"
    /\ UNCHANGED << gen, server, api, drill, update_dict, enrich >>

DrillNext ==
    \/ UpdateDrillNotFound
    \/ UpdateDrillApply
    \/ UpdateTranslateOk
    \/ UpdateTranslateFail
    \/ UpdateTtsOk
    \/ UpdateTtsFail
    \/ UpdateCommit

SpecDrill == DrillInit /\ [][DrillNext]_vars

\* ======================================================================
\* main.py: POST /video-processing/submit, its background task and
\* GET /video-processing/{job_id}/status.  submit and the task are async
\* def and run on the event loop; the status endpoint is a plain def and
\* runs on the thread pool, between any two commits of the task
\* ======================================================================
\* what the request may carry: source_url (a query parameter) and file
SourceUrls == { None, "", "https://youtu.be/x" }
UploadNames == { None, "clip.mp4" }

\* the truth value Python gives a str or None / an UploadFile or None
Given(x) == x \notin { None, "" }

\* faulty variant: a request carrying both is not refused
RefusedWhenNeither(source_url, file) == ~Given(source_url) /\ ~Given(file)

\* the two checks that raise HTTPException(400)
Refused(source_url, file) ==
    \/ ~Given(source_url) /\ ~Given(file)
    \/ Given(source_url) /\ Given(file)

\* source_filepath = os.path.join("temp_uploads", file.filename), or None
SourceFilepath(file) ==
    IF Given(file) THEN [store |-> "local", dir |-> "temp_uploads", name |-> file]
    ELSE [store |-> "none", dir |-> "", name |-> None]

\* the event loop is running a background task (it has no await: nothing else
\* the loop serves can run before it returns)
TaskRunning == \E i \in DOMAIN vtasks : vtasks[i].pc = "started"

VideoInit ==
    /\ GenIdle
    /\ ServerIdle
    /\ CrudIdle
    /\ VideoIdle
    /\ DemoApiIdle
    /\ ImportIdle
    /\ UploadIdle

\* submit_video_for_processing: one of the two checks raises 400
SubmitRefused(source_url, file) ==
    /\ ~TaskRunning
    /\ Refused(source_url, file)
    /\ vanswer' = [op |-> "submit", source_url |-> source_url, file |-> file,
                   status |-> 400, id |-> 0, job_status |-> None]
    /\ UNCHANGED << not_video, vjobs, vtasks >>

\* submit_video_for_processing: the row is stored as PENDING, the task is
\* added for its id, the row is returned
SubmitAccepted(source_url, file) ==
    /\ ~TaskRunning
    /\ Len(vjobs) < MaxVideoJobs
    /\ ~Refused(source_url, file)
    /\ vjobs' = Append(vjobs, [source_url |-> source_url,
                               source_filepath |-> SourceFilepath(file),
                               status |-> "PENDING", processing_log |-> None])
    /\ vtasks' = Append(vtasks, [job_id |-> Len(vjobs) + 1, pc |-> "scheduled"])
    /\ vanswer' = [op |-> "submit", source_url |-> source_url, file |-> file,
                   status |-> 200, id |-> Len(vjobs) + 1, job_status |-> "PENDING"]
    /\ UNCHANGED not_video

\* process_video_background_task, first commit: if job: status = "IN_PROGRESS"
TaskBegin(i) ==
    /\ i \in DOMAIN vtasks
    /\ ~TaskRunning
    /\ vtasks[i].pc = "scheduled"
    /\ vjobs' = IF vtasks[i].job_id \in DOMAIN vjobs
                THEN [vjobs EXCEPT ![vtasks[i].job_id].status = "IN_PROGRESS"]
                ELSE vjobs
    /\ vtasks' = [vtasks EXCEPT ![i].pc = "started"]
    /\ UNCHANGED << not_video, vanswer >>

\* faulty variant: the task ends without marking the job
LeftInProgress(row) == row

\* job.status = "COMPLETED"; job.processing_log = "Simulated successful processing."
Completed(row) ==
    [row EXCEPT !.status = "COMPLETED",
                !.processing_log = "Simulated successful processing."]

\* process_video_background_task, second commit: if job: status = "COMPLETED"
TaskFinish(i) ==
    /\ i \in DOMAIN vtasks
    /\ vtasks[i].pc = "started"
    /\ vjobs' = IF vtasks[i].job_id \in DOMAIN vjobs
                THEN [vjobs EXCEPT ![vtasks[i].job_id] = Completed(@)]
                ELSE vjobs
    /\ vtasks' = [vtasks EXCEPT ![i].pc = "finished"]
    /\ UNCHANGED << not_video, vanswer >>

\* get_video_processing_status: 404 for an unknown id, else the row
GetVideoStatus(id) ==
    /\ vanswer' = IF id \in DOMAIN vjobs
                  THEN [op |-> "status", source_url |-> None, file |-> None,
                        status |-> 200, id |-> id, job_status |-> vjobs[id].status]
                  ELSE [op |-> "status", source_url |-> None, file |-> None,
                        status |-> 404, id |-> id, job_status |-> None]
    /\ UNCHANGED << not_video, vjobs, vtasks >>

VideoJobIds == 1..MaxVideoJobs

VideoNext ==
    \/ \E u \in SourceUrls, f \in UploadNames : SubmitRefused(u, f)
    \/ \E u \in SourceUrls, f \in UploadNames : SubmitAccepted(u, f)
    \/ \E i \in VideoJobIds : TaskBegin(i)
    \/ \E i \in VideoJobIds : TaskFinish(i)
    \/ \E id \in VideoJobIds : GetVideoStatus(id)

SpecVideo == VideoInit /\ [][VideoNext]_vars

\* a task that has started runs to its end: it is one coroutine without await
SpecVideoFair == SpecVideo /\ \A i \in VideoJobIds : WF_vars(TaskFinish(i))

\* ======================================================================
\* main.py: POST /generate-drillplayer-demo/{test_id}
\* ======================================================================
\* the pieces of test.drill_ids between commas: ids that name a drill or not,
\* an empty piece, a piece that is no number
IdTokens == { "1", "2", "3", "", "x" }

\* int(id.strip()) of a piece that is a number
IntOf(tok) == CASE tok = "1" -> 1 [] tok = "2" -> 2 [] tok = "3" -> 3

\* [int(id.strip()) for id in test.drill_ids.split(',') if id.strip()]
ParsedIds(toks) == LET kept == SelectSeq(toks, LAMBDA t : t # "")
                   IN  [i \in DOMAIN kept |-> IntOf(kept[i])]
Unparsable(toks) == \E i \in DOMAIN toks : toks[i] = "x"

\* the values of a sequence
Range(s) == { s[i] : i \in DOMAIN s }

\* db.query(DrillModel).filter(DrillModel.id.in_(drill_ids)).all(): each row
\* whose id is listed, once, in an order the query does not fix
QueryResults(drill_ids) ==
    LET hit == Range(drill_ids) \cap demo_db
    IN  { r \in SeqsUpTo(hit, Cardinality(hit)) :
            Len(r) = Cardinality(hit) /\ Range(r) = hit }

DemoApiInit ==
    /\ GenIdle
    /\ ServerIdle
    /\ CrudIdle
    /\ VideoIdle
    /\ ImportIdle
    /\ UploadIdle
    /\ demo_test \in { NoTest } \cup
                     { [exists |-> TRUE, drill_ids |-> t] : t \in SeqsUpTo(IdTokens, MaxListed) }
    /\ demo_db \in SUBSET DrillIds
    /\ demo_pc = "request"
    /\ drills = <<>> /\ demo_items = <<>> /\ demo_answer = NoDemoAnswer

\* if not test: raise HTTPException(404)
DemoApiNotFound ==
    /\ demo_pc = "request"
    /\ ~demo_test.exists
    /\ demo_pc' = "answered"
    /\ demo_answer' = [status |-> 404, detail |-> "Test not found", drill_count |-> 0]
    /\ UNCHANGED << not_demo_api, demo_test, demo_db, drills, demo_items >>

\* int() raises ValueError inside the try: except Exception answers 500
DemoApiParseError ==
    /\ demo_pc = "request"
    /\ demo_test.exists
    /\ Unparsable(demo_test.drill_ids)
    /\ demo_pc' = "answered"
    /\ demo_answer' = [status |-> 500, detail |-> "invalid literal for int()",
                       drill_count |-> 0]
    /\ UNCHANGED << not_demo_api, demo_test, demo_db, drills, demo_items >>

\* drills = db.query(...).all()
DemoApiQuery ==
    /\ demo_pc = "request"
    /\ demo_test.exists
    /\ ~Unparsable(demo_test.drill_ids)
    /\ drills' \in QueryResults(ParsedIds(demo_test.drill_ids))
    /\ demo_pc' = "queried"
    /\ UNCHANGED << not_demo_api, demo_test, demo_db, demo_items, demo_answer >>

\* if not drills: raise HTTPException(400, "Test has no drills"), raised
\* inside the try: except Exception catches it and raises
\* HTTPException(500, detail=str(e))
DemoApiNoDrills ==
    /\ demo_pc = "queried"
    /\ drills = <<>>
    /\ demo_pc' = "answered"
    /\ demo_answer' = [status |-> 500, detail |-> "400: Test has no drills",
                       drill_count |-> 0]
    /\ UNCHANGED << not_demo_api, demo_test, demo_db, drills, demo_items >>

\* for drill in drills: drills_data.append({...}); generate_demo is called
DemoApiGenerate ==
    /\ demo_pc = "queried"
    /\ drills # <<>>
    /\ demo_items' = drills
    /\ demo_pc' = "generating"
    /\ UNCHANGED << not_demo_api, demo_test, demo_db, drills, demo_answer >>

\* generate_demo returns: the endpoint answers with the path and the count
DemoApiGenerateOk ==
    /\ demo_pc = "generating"
    /\ demo_pc' = "answered"
    /\ demo_answer' = [status |-> 200, detail |-> "Demo video generated successfully",
                       drill_count |-> Len(demo_items)]
    /\ UNCHANGED << not_demo_api, demo_test, demo_db, drills, demo_items >>

\* generate_demo raises: except Exception answers 500
DemoApiGenerateFail ==
    /\ demo_pc = "generating"
    /\ demo_pc' = "answered"
    /\ demo_answer' = [status |-> 500, detail |-> "generate_demo error", drill_count |-> 0]
    /\ UNCHANGED << not_demo_api, demo_test, demo_db, drills, demo_items >>

DemoApiNext ==
    \/ DemoApiNotFound
    \/ DemoApiParseError
    \/ DemoApiQuery
    \/ DemoApiNoDrills
    \/ DemoApiGenerate
    \/ DemoApiGenerateOk
    \/ DemoApiGenerateFail

SpecDemoApi == DemoApiInit /\ [][DemoApiNext]_vars

\* ======================================================================
\* main.py: POST /import-data/ (import_data).  The session autoflushes: a
\* row added with db.add is inserted, inside the open transaction, before
\* the next query of the session and at commit
\* ======================================================================
\* a record of the payload: whether it has the key 'id', the id (0: null) and
\* the rest of its fields (None: a field the table requires is missing)
DrillRecords ==
    { [has_id |-> FALSE, id |-> 0, v |-> "a"], [has_id |-> TRUE, id |-> 0, v |-> "a"],
      [has_id |-> TRUE, id |-> 1, v |-> "a"], [has_id |-> TRUE, id |-> 1, v |-> "b"],
      [has_id |-> TRUE, id |-> 2, v |-> "a"] }
TestRecords ==
    { [has_id |-> TRUE, id |-> 1, v |-> "a"], [has_id |-> TRUE, id |-> 1, v |-> None] }
AttemptRecords ==
    { [has_id |-> TRUE, id |-> 1, v |-> "a"], [has_id |-> FALSE, id |-> 0, v |-> "a"] }
Payloads ==
    { [drills |-> d, tests |-> t, test_attempts |-> a] :
        d \in SeqsUpTo(DrillRecords, MaxRecords),
        t \in SeqsUpTo(TestRecords, 1), a \in SeqsUpTo(AttemptRecords, 1) }

\* the rows the database holds before the first import
StoredRows == { {}, { [id |-> 1, v |-> "z"] } }

\* the order of the three loops, then db.commit()
NextTable(t) ==
    CASE t = "drills" -> "tests" [] t = "tests" -> "test_attempts"
      [] t = "test_attempts" -> "commit"

\* the rows a query of the session sees
Visible(t) == imp_db[t] \cup imp_pending[t]

\* db.query(Model).filter(Model.id == record['id']).first() found a row; an
\* id of null compares with IS NULL and finds none
Existing(t, rec) == rec.id # 0 /\ \E r \in Visible(t) : r.id = rec.id

\* the id the database gives a row added with id=None
NewId(t) ==
    IF Visible(t) = {} THEN 1
    ELSE 1 + CHOOSE m \in { r.id : r \in Visible(t) } : \A r \in Visible(t) : r.id <= m

\* a pending row the database refuses (NOT NULL): the flush raises
FlushFails == \E t \in Tables : \E r \in imp_pending[t] : r.v = None

\* db.commit(): the rows of the transaction become rows of the tables
Committed(db, pending) == [t \in Tables |-> db[t] \cup pending[t]]

\* faulty variant: the rows added before the failure are kept
RolledBackKeeps(db, pending) == [t \in Tables |-> db[t] \cup pending[t]]

\* db.rollback(): the rows of the transaction are dropped
RolledBack(db, pending) == db

ImportInit ==
    /\ GenIdle
    /\ ServerIdle
    /\ CrudIdle
    /\ VideoIdle
    /\ DemoApiIdle
    /\ UploadIdle
    /\ imp_db \in [Tables -> StoredRows]
    /\ imp_db["test_attempts"] = {}
    /\ imp_pending = EmptyTables
    /\ data \in Payloads
    /\ imp_pc = "drills" /\ imp_i = 1 /\ imported = NoCounts
    /\ imp_round = 1 /\ imp_answer = 0

\* one turn of a loop: the record's id exists (continue; the drills loop
\* counts it as skipped), or a row is built from the record and added
ImportRecord(t) ==
    /\ imp_pc = t
    /\ imp_i <= Len(data[t])
    /\ ~FlushFails
    /\ data[t][imp_i].has_id
    /\ LET rec == data[t][imp_i]
       IN  IF Existing(t, rec)
           THEN /\ imported' = IF t = "drills"
                                THEN [imported EXCEPT !.skipped = @ + 1]
                                ELSE imported
                /\ UNCHANGED imp_pending
           ELSE /\ imp_pending' =
                     [imp_pending EXCEPT ![t] =
                        @ \cup { [id |-> IF rec.id = 0 THEN NewId(t) ELSE rec.id,
                                  v |-> rec.v] }]
                /\ imported' = [imported EXCEPT ![t] = @ + 1]
    /\ imp_i' = imp_i + 1
    /\ UNCHANGED << not_import_api, imp_db, data, imp_pc, imp_round, imp_answer >>

\* the loop is over: the next loop starts, or the commit is reached
ImportLoopEnd(t) ==
    /\ imp_pc = t
    /\ imp_i > Len(data[t])
    /\ imp_pc' = NextTable(t)
    /\ imp_i' = 1
    /\ UNCHANGED << not_import_api, imp_db, imp_pending, data, imported, imp_round,
                    imp_answer >>

\* record['id'] raises KeyError: except Exception rolls back and answers 500
ImportKeyError(t) ==
    /\ imp_pc = t
    /\ imp_i <= Len(data[t])
    /\ ~FlushFails
    /\ ~data[t][imp_i].has_id
    /\ imp_db' = RolledBack(imp_db, imp_pending)
    /\ imp_pending' = EmptyTables
    /\ imp_pc' = "failed"
    /\ imp_answer' = 500
    /\ UNCHANGED << not_import_api, data, imp_i, imported, imp_round >>

\* the flush before a query or at commit raises IntegrityError: except
\* Exception rolls back and answers 500
ImportFlushError ==
    /\ \/ imp_pc \in Tables /\ imp_i <= Len(data[imp_pc])
       \/ imp_pc = "commit"
    /\ FlushFails
    /\ imp_db' = RolledBack(imp_db, imp_pending)
    /\ imp_pending' = EmptyTables
    /\ imp_pc' = "failed"
    /\ imp_answer' = 500
    /\ UNCHANGED << not_import_api, data, imp_i, imported, imp_round >>

\* db.commit(); return {"status": "success", "imported": imported}
ImportCommit ==
    /\ imp_pc = "commit"
    /\ ~FlushFails
    /\ imp_db' = Committed(imp_db, imp_pending)
    /\ imp_pending' = EmptyTables
    /\ imp_pc' = "done"
    /\ imp_answer' = 200
    /\ UNCHANGED << not_import_api, data, imp_i, imported, imp_round >>

\* the same payload is posted again
ImportAgain ==
    /\ imp_pc \in { "done", "failed" }
    /\ imp_round < MaxImports
    /\ imp_round' = imp_round + 1
    /\ imp_pc' = "drills" /\ imp_i' = 1 /\ imported' = NoCounts /\ imp_answer' = 0
    /\ UNCHANGED << not_import_api, imp_db, imp_pending, data >>

ImportNext ==
    \/ \E t \in Tables : ImportRecord(t)
    \/ \E t \in Tables : ImportLoopEnd(t)
    \/ \E t \in Tables : ImportKeyError(t)
    \/ ImportFlushError
    \/ ImportCommit
    \/ ImportAgain

SpecImport == ImportInit /\ [][ImportNext]_vars

\* ======================================================================
\* main.py: POST /upload-media/{drill_id}/{media_type} (upload_media)
\* ======================================================================
\* the media types of the path; "document" is none the endpoint knows
MediaTypes == { "audio", "video", "image", "document" }

\* file.filename, as its pieces between dots (None: the part has no name)
UploadFilenames ==
    { <<"song", "mp3">>, <<"song", "MP3">>, <<"clip", "mov">>, <<"photo", "png">>,
      <<"setup", "exe">>, <<"name", "">>, <<"recording">>, <<>> }

\* str.lower() of an extension
Lower(x) == IF x = "MP3" THEN "mp3" ELSE x

\* the extension: the last piece of a name with a dot, lowered, else the
\* default of the media type
Ext(filename, media_type) ==
    IF Len(filename) >= 2 THEN Lower(filename[Len(filename)])
    ELSE CASE media_type = "audio" -> "webm" [] media_type = "video" -> "mp4"
           [] OTHER -> "jpg"

\* allowed_extensions.get(media_type, [])
allowed_extensions(media_type) ==
    CASE media_type = "audio" -> { "webm", "mp4", "ogg", "wav", "m4a", "mp3", "aac" }
      [] media_type = "video" -> { "mp4", "webm", "mov", "avi", "m4v" }
      [] media_type = "image" -> { "jpg", "jpeg", "png", "gif", "webp" }
      [] OTHER -> {}

\* where the content goes and the url it gets
UploadTarget(r) ==
    IF r.use_cloudinary
    THEN [store |-> "remote", dir |-> r.media_type,
          name |-> << r.media_type, "_", ToString(r.drill_id), "_", ToString(now) >>]
    ELSE [store |-> "local", dir |-> r.media_type,
          name |-> << r.media_type, "_", ToString(r.drill_id), "_", ToString(now), ".",
                      Ext(r.filename, r.media_type) >>]
UploadUrl(r) ==
    IF r.use_cloudinary
    THEN [store |-> "secure_url", dir |-> r.media_type, name |-> UploadTarget(r).name]
    ELSE [store |-> "url", dir |-> r.media_type, name |-> UploadTarget(r).name]

\* faulty variant: every upload lands in audio_url
WithUrlAsAudio(row, media_type, url) == [row EXCEPT !.audio_url = url]

\* if media_type == "audio": drill.audio_url = url, elif "video", elif "image"
WithUrl(row, media_type, url) ==
    CASE media_type = "audio" -> [row EXCEPT !.audio_url = url]
      [] media_type = "video" -> [row EXCEPT !.video_url = url]
      [] media_type = "image" -> [row EXCEPT !.image_url = url]
      [] OTHER -> row

UploadInit ==
    /\ GenIdle
    /\ ServerIdle
    /\ CrudIdle
    /\ VideoIdle
    /\ DemoApiIdle
    /\ ImportIdle
    /\ up_req \in [media_type : MediaTypes, drill_id : DrillIds, filename : UploadFilenames,
                    size : 0..MaxSize, use_cloudinary : BOOLEAN]
    /\ up_row = StoredDrill
    /\ up_files = {}
    /\ up_url = NoUrl
    /\ up_pc = "request"
    /\ up_answer = NoUploadAnswer

\* the request is refused with an HTTPException, which upload_media re-raises
UploadRefused(status) ==
    /\ up_pc' = "answered"
    /\ up_answer' = [status |-> status, url |-> NoUrl]
    /\ UNCHANGED << not_upload_api, up_req, up_row, up_files, up_url >>

\* if media_type not in ["audio", "video", "image"]: 400
UploadInvalidType ==
    /\ up_pc = "request"
    /\ up_req.media_type \notin { "audio", "video", "image" }
    /\ UploadRefused(400)

\* if not drill: 404
UploadDrillNotFound ==
    /\ up_pc = "request"
    /\ up_req.media_type \in { "audio", "video", "image" }
    /\ up_req.drill_id # up_row.id
    /\ UploadRefused(404)

\* if len(content) == 0: 400
UploadEmpty ==
    /\ up_pc = "request"
    /\ up_req.media_type \in { "audio", "video", "image" }
    /\ up_req.drill_id = up_row.id
    /\ up_req.size = 0
    /\ UploadRefused(400)

\* if ext not in allowed_extensions.get(media_type, []): 400
UploadBadExtension ==
    /\ up_pc = "request"
    /\ up_req.media_type \in { "audio", "video", "image" }
    /\ up_req.drill_id = up_row.id
    /\ up_req.size # 0
    /\ Ext(up_req.filename, up_req.media_type) \notin allowed_extensions(up_req.media_type)
    /\ UploadRefused(400)

\* the checks passed
UploadChecked ==
    /\ up_pc = "request"
    /\ up_req.media_type \in { "audio", "video", "image" }
    /\ up_req.drill_id = up_row.id
    /\ up_req.size # 0
    /\ Ext(up_req.filename, up_req.media_type) \in allowed_extensions(up_req.media_type)

\* cloudinary.uploader.upload(...) returns, or the file is written locally
UploadStore ==
    /\ UploadChecked
    /\ up_files' = up_files \cup { UploadTarget(up_req) }
    /\ up_url' = UploadUrl(up_req)
    /\ up_pc' = "stored"
    /\ UNCHANGED << not_upload_api, up_req, up_row, up_answer >>

\* the upload or the write raises: except Exception answers 500
UploadStoreFails ==
    /\ UploadChecked
    /\ up_pc' = "answered"
    /\ up_answer' = [status |-> 500, url |-> NoUrl]
    /\ UNCHANGED << not_upload_api, up_req, up_row, up_files, up_url >>

\* the url field of the media type is set; db.commit(); return {"url": url}
UploadCommit ==
    /\ up_pc = "stored"
    /\ up_row' = WithUrl(up_row, up_req.media_type, up_url)
    /\ up_pc' = "answered"
    /\ up_answer' = [status |-> 200, url |-> up_url]
    /\ UNCHANGED << not_upload_api, up_req, up_files, up_url >>

UploadNext ==
    \/ UploadInvalidType
    \/ UploadDrillNotFound
    \/ UploadEmpty
    \/ UploadBadExtension
    \/ UploadStore
    \/ UploadStoreFails
    \/ UploadCommit

SpecUpload == UploadInit /\ [][UploadNext]_vars

\* ======================================================================
\* Claims
\* ======================================================================
\* the audio failed to load: the locator is present and did not give a clip
AudioFailed(a) == a.kind \in {"missing", "fetch_error", "error"}

\* max of two numbers, for the statements below
Larger(a, b) == IF a > b THEN a ELSE b

RECURSIVE TotalOf(_)
TotalOf(cs) == IF Len(cs) = 0 THEN 0 ELSE cs[Len(cs)].dur + TotalOf(SubSeq(cs, 1, Len(cs) - 1))

\* the output directory of each source file, and the path of the output in it
OutputDir == IF variant = "backend" THEN "media/shorts" ELSE "shorts_output"
ExpectedOutput == [store |-> "local", dir |-> OutputDir, name |-> output_filename]
ExpectedUrl ==
    [store |-> "remote", dir |-> "tachelhit/shorts",
     name |-> IF output_filename[Len(output_filename)] = ".mp4"
              THEN SubSeq(output_filename, 1, Len(output_filename) - 1)
              ELSE output_filename]

\* the job's temporary artifacts: downloaded assets and the frame image
TempArtifacts ==
    tmp_made \cup { [store |-> "local", dir |-> OutputDir,
                    name |-> <<"temp_">> \o output_filename \o <<".png">>] }

EncodeFailed ==
    /\ result.kind = "raise"
    /\ result.value.name \in { <<"RuntimeError: Failed to write video file">>,
                               <<"write_videofile error">> }

UploadFailed == result.kind = "raise" /\ result.value.name = <<"cloudinary upload error">>

\* C1: short mode, both source files: an item whose audio loaded with duration
\* d gets a clip of max(4 s, d + 0.5 s); d = 2.0 s gives 4.0 s, d = 5.0 s gives 5.5 s.
C1_ShortAudioDuration ==
    (mode = "short" /\ clips # <<>> /\ audio_log[1].kind = "ok") =>
        LET d == audio_log[1].d
        IN  /\ clips[1].dur = Larger(4000, d + 500)
            /\ (d = 2000 => clips[1].dur = 4000)
            /\ (d = 5000 => clips[1].dur = 5500)

C1_Witness ==
    /\ mode = "short" /\ variant = "hf" /\ pc = "done"
    /\ audio_log[1] = [kind |-> "ok", d |-> 5000]
    /\ clips[1].dur = 5500

\* C2 as stated: demo mode: an item whose audio loaded with duration d gets a
\* clip of max(5 s, d + 0.5 s).
C2_DemoAudioDurationHalfSecond ==
    mode = "demo" =>
        \A i \in 1..Len(clips) :
            audio_log[i].kind = "ok" => clips[i].dur = Larger(5000, audio_log[i].d + 500)

\* C2 amended: demo mode: an item whose audio loaded with duration d gets a
\* clip of max(5 s, d + 1.0 s).
C2_DemoAudioDuration ==
    mode = "demo" =>
        \A i \in 1..Len(clips) :
            audio_log[i].kind = "ok" => clips[i].dur = Larger(5000, audio_log[i].d + 1000)

C2_Witness ==
    /\ mode = "demo" /\ pc = "done" /\ Len(clips) = 2
    /\ audio_log[2] = [kind |-> "ok", d |-> 4500]
    /\ clips[2].dur = 5500

\* C3: an item without the audio locator its mode reads (audio_url in short
\* mode, audio_tts_url in demo mode) gets a clip of exactly the mode's minimum
\* (4 s short, 5 s demo) with no audio stream; every clip, and every clip of the
\* timeline, holds at most one audio stream.
C3_NoAudioMinimum ==
    /\ \A i \in 1..Len(clips) :
          LET item == drills_data[clips[i].item]
              absent == IF mode = "short" THEN item.audio_url = None
                        ELSE item.audio_tts_url = None
          IN  absent => /\ clips[i].dur = (IF mode = "short" THEN 4000 ELSE 5000)
                        /\ clips[i].audio = <<>>
    /\ \A i \in 1..Len(clips) : Len(clips[i].audio) <= 1
    /\ LET tl == Timeline IN \A k \in 1..Len(tl) : Len(tl[k].audio) <= 1

C3_Witness ==
    /\ mode = "demo" /\ pc = "done" /\ Len(clips) = 2
    /\ drills_data[1].audio_tts_url = None /\ drills_data[1].audio_url = Loc
    /\ clips[1].dur = 5000 /\ clips[1].audio = <<>>
    /\ clips[2].audio # <<>>

\* C4: an item whose audio locator is present but does not load (missing file,
\* fetch error, decode error) still gets its clip, of the mode's minimum
\* duration and without audio; no exception leaves the audio step: every item
\* whose audio step ran has its clip, and a short job goes on to the encode.
C4_AudioFailureFallback ==
    /\ Len(clips) = Len(audio_log)
    /\ \A i \in 1..Len(audio_log) :
          AudioFailed(audio_log[i]) =>
              /\ clips[i].dur = (IF mode = "short" THEN 4000 ELSE 5000)
              /\ clips[i].audio = <<>>
    /\ (mode = "short" /\ audio_log # <<>>) =>
          /\ final_clip = clips[1]
          /\ pc \in {"encode", "sink", "unlink", "done", "failed"}
          /\ (pc = "failed" => EncodeFailed \/ UploadFailed)

C4_Witness ==
    /\ mode = "short" /\ variant = "hf" /\ pc = "done"
    /\ audio_log[1].kind = "error"
    /\ clips[1].dur = 4000 /\ clips[1].audio = <<>>

\* C5: whenever the timeline is built, in demo mode it is the intro, then the
\* clips of items 1..N in input order, then the outro (N + 2 clips, N >= 1);
\* in short mode it is exactly the one item clip.
C5_TimelineOrder ==
    final_clip # NoClip =>
        LET tl == Timeline
            n == Len(drills_data)
        IN  IF mode = "demo"
            THEN /\ n >= 1
                 /\ Len(tl) = n + 2
                 /\ tl[1].kind = "intro"
                 /\ tl[n + 2].kind = "outro"
                 /\ SubSeq(tl, 2, n + 1) = clips
                 /\ \A k \in 1..n : clips[k].kind = "item" /\ clips[k].item = k
            ELSE /\ tl = << clips[1] >>
                 /\ clips[1].kind = "item" /\ clips[1].item = 1

C5_Witness ==
    /\ mode = "demo" /\ pc = "encode" /\ Len(drills_data) = 2
    /\ clips[1].dur # clips[2].dur
    /\ Len(Timeline) = 4
    /\ Timeline[2] = clips[1] /\ Timeline[3] = clips[2]

\* C6: the timeline lasts the sum of its clips' durations: in demo mode
\* 3 s + the item clips + 3 s (two items without audio: 16 s), in short mode
\* the duration of the single clip.
C6_TotalDuration ==
    final_clip # NoClip =>
        /\ final_clip.dur = TotalOf(Timeline)
        /\ mode = "demo" => final_clip.dur = 3000 + TotalOf(clips) + 3000
        /\ (mode = "demo" /\ Len(clips) = 2
              /\ clips[1].audio = <<>> /\ clips[2].audio = <<>>) => final_clip.dur = 16000
        /\ mode = "short" => final_clip.dur = clips[1].dur

C6_Witness ==
    /\ mode = "demo" /\ pc = "encode" /\ Len(clips) = 2
    /\ clips[1].audio = <<>> /\ clips[2].audio = <<>>
    /\ final_clip.dur = 16000

\* C7 as stated: when the encode fails the partly written output is gone, and
\* on every exit (return or raise) no temporary artifact of the job (frame
\* image, downloaded asset) is left on disk.
C7_NoOrphanedTempFiles ==
    /\ EncodeFailed => ExpectedOutput \notin files
    /\ pc \in {"done", "failed"} => files \cap TempArtifacts = {}

\* C8 as stated: with CLOUDINARY_CLOUD_NAME configured every generator (backend
\* and hf) that returns has uploaded the file, removed the local file and
\* returned the remote URL.
C8_EveryGeneratorUploads ==
    (use_cloudinary /\ pc = "done") =>
        /\ ExpectedUrl \in remote
        /\ ExpectedOutput \notin files
        /\ result = [kind |-> "return", value |-> ExpectedUrl]

\* C8 amended: with CLOUDINARY_CLOUD_NAME configured the hf generators upload
\* the encoded file, remove the local file only once the upload has
\* succeeded, and return the remote URL; the backend generators never upload:
\* they keep the local file and return its path.
C8_HfUploadsThenDeletes ==
    /\ (variant = "hf" /\ use_cloudinary) =>
          /\ pc = "done" => /\ ExpectedUrl \in remote
                            /\ ExpectedOutput \notin files
                            /\ result = [kind |-> "return", value |-> ExpectedUrl]
          /\ (pc \in {"sink", "unlink", "done"} /\ ExpectedOutput \notin files)
                => ExpectedUrl \in remote
          /\ (result.kind = "return") => pc = "done"
    /\ (variant = "backend" /\ pc = "done") =>
          /\ remote = {}
          /\ ExpectedOutput \in files
          /\ result = [kind |-> "return", value |-> ExpectedOutput]

C8_Witness ==
    /\ variant = "hf" /\ use_cloudinary /\ pc = "done" /\ mode = "demo"
    /\ output_filename = <<"short_1", ".mp4">>
    /\ remote = { ExpectedUrl } /\ ExpectedOutput \notin files

\* C9: when the upload fails after a successful encode the job fails (the
\* generator raises) and the encoded file is still at output directory +
\* filename.
C9_UploadFailureKeepsFile ==
    UploadFailed =>
        /\ pc = "failed"
        /\ ExpectedOutput \in files
        /\ remote = {}

C9_Witness ==
    /\ UploadFailed /\ variant = "hf" /\ mode = "short"
    /\ ExpectedOutput \in files

\* C10: with no remote store configured, a generator whose encode succeeded
\* returns exactly output directory + filename, and the file exists there.
C10_LocalPathReturned ==
    (~use_cloudinary /\ pc \in {"sink", "done"}) =>
        /\ ExpectedOutput \in files
        /\ pc = "done" => result = [kind |-> "return", value |-> ExpectedOutput]

C10_Witness ==
    /\ ~use_cloudinary /\ pc = "done" /\ variant = "hf" /\ mode = "short"
    /\ result.value = ExpectedOutput /\ ExpectedOutput \in files

\* C11 as stated: when a job ends, by a return or by a raise, every media
\* handle it opened (item clips, audio clips, intro, outro, concatenations)
\* has been closed.
C11_AllHandlesClosed ==
    pc \in {"done", "failed"} => open_handles = {}

\* the item whose frame was composed last
FrameItem == drills_data[IF mode = "short" THEN 1 ELSE idx - 1]

\* the item carries nothing: every field is None or missing
EntirelyAbsent(item) == \A k \in DOMAIN item : item[k] \in {None, Absent}

\* C12 as stated: a job given no item, or an item none of whose fields (the
\* three texts, the photo, the audio) is there, never reaches the encode and
\* never creates the output file.
C12_EmptyInputAborts ==
    (drills_data = <<>> \/ \E i \in 1..Len(drills_data) : EntirelyAbsent(drills_data[i])) =>
        /\ pc \notin {"encode", "sink", "unlink", "done"}
        /\ final_clip = NoClip
        /\ ExpectedOutput \notin files

\* the photo of the frame's item was asked for and is not on the frame
PhotoFailed ==
    /\ img.composed
    /\ FrameItem.image_url \notin {None, Absent, ""}
    /\ ~img.photo

\* the frame the generators compose for the same item once its photo locator
\* is taken away
FrameWithoutImage ==
    LET item == [FrameItem EXCEPT !.image_url = None]
    IN  IF mode = "short" THEN ShortFrame(item, "absent")
        ELSE DemoFrame(item, "absent", idx - 1, Len(drills_data))

\* C16 as stated: a photo that fails to load never aborts the job: the frame is
\* composed, the clip is built, and frame and clip are exactly those of the same
\* item without image.
C16_PhotoFailureAsNoPhoto ==
    PhotoFailed =>
        /\ img = FrameWithoutImage
        /\ mode = "demo" => /\ Len(clips) = idx - 1
                            /\ ~clips[idx - 1].photo
        /\ (mode = "short" /\ clips # <<>>) => ~clips[1].photo

\* the box a photo is shrunk into, per mode
PhotoBox == IF mode = "short" THEN <<880, 1120>> ELSE <<300, 200>>

\* the pasted photo is the original or a proportional reduction of it that
\* fits the box: never larger, unchanged when it already fits, ratio kept up
\* to the rounding of one side to a whole pixel
ShrunkToFit(orig, new, box) ==
    /\ new[1] >= 1 /\ new[2] >= 1
    /\ new[1] <= orig[1] /\ new[2] <= orig[2]
    /\ new[1] <= box[1] /\ new[2] <= box[2]
    /\ (orig[1] <= box[1] /\ orig[2] <= box[2]) => new = orig
    /\ (orig[1] > box[1] \/ orig[2] > box[2]) => (new[1] = box[1] \/ new[2] = box[2])
    /\ 2 * (IF new[1] * orig[2] >= new[2] * orig[1]
            THEN new[1] * orig[2] - new[2] * orig[1]
            ELSE new[2] * orig[1] - new[1] * orig[2]) <= Larger(orig[1], orig[2])

\* the stored size of the photo of the frame's item
OriginalSize ==
    LET loc == FrameItem.image_url
    IN  IF loc = "icon.png" THEN <<100, 80>>
        ELSE IF loc = "wide.jpg" THEN <<2000, 500>>
        ELSE IF loc = "tall.jpg" THEN <<1000, 3000>>
        ELSE <<800, 600>>

\* C17 as stated: on short (1080x1920) and demo (1280x720) frames alike a pasted
\* photo is never enlarged, fits its box and is centred on the canvas: its
\* top-left corner is ((W - w') // 2, (H - h') // 2).
C17_PhotoCentredEverywhere ==
    img.photo =>
        /\ ShrunkToFit(OriginalSize, img.photo_size, PhotoBox)
        /\ img.photo_at = << (img.canvas[1] - img.photo_size[1]) \div 2,
                             (img.canvas[2] - img.photo_size[2]) \div 2 >>

\* C17 amended: a pasted photo is the original or a proportional reduction,
\* never larger.  On short frames it fits 880x1120 and is centred on the
\* 1080x1920 canvas, clear of the text bands; on demo frames it fits 300x200
\* and its top-left corner is always (60, 110), inside the content area, not
\* centred.  None of this depends on which texts the item has.
C17_PhotoPlacement ==
    img.photo =>
        /\ ShrunkToFit(OriginalSize, img.photo_size, PhotoBox)
        /\ mode = "short" =>
              /\ img.canvas = <<1080, 1920>>
              /\ img.photo_at = << (1080 - img.photo_size[1]) \div 2,
                                   (1920 - img.photo_size[2]) \div 2 >>
              /\ img.photo_at[2] >= 400
              /\ img.photo_at[2] + img.photo_size[2] <= 1520
        /\ mode = "demo" =>
              /\ img.canvas = <<1280, 720>>
              /\ img.photo_at = <<60, 110>>
              /\ img.photo_at[2] + img.photo_size[2] <= 620
              /\ img.photo_at[1] + img.photo_size[1] <= 360

C17_Witness ==
    /\ mode = "short" /\ pc = "done" /\ img.photo
    /\ FrameItem.image_url = "tall.jpg"
    /\ FrameItem.text_catalan = None /\ FrameItem.text_tachelhit = None
    /\ FrameItem.text_arabic = None
    /\ img.photo_size = <<373, 1120>>
    /\ img.photo_at = <<353, 400>>

\* the vertical extent of each band, per mode
BandAt(m, text) ==
    IF m = "short"
    THEN (IF text = "catalan" THEN <<100, 200>>
          ELSE IF text = "arabic" THEN <<230, 310>>
          ELSE <<1920 - 220, 1920 - 120>>)
    ELSE (IF text = "catalan" THEN <<110, 140>>
          ELSE IF text = "tachelhit" THEN <<190, 220>>
          ELSE <<270, 300>>)

\* the text of the frame's item a band shows
BandText(name) ==
    IF name = "catalan" THEN FrameItem.text_catalan
    ELSE IF name = "arabic" THEN FrameItem.text_arabic
    ELSE FrameItem.text_tachelhit

\* C18: on a composed frame the band of a text is drawn if and only if the
\* text is non-empty (not None, not missing, not ""), once, and its vertical
\* extent is fixed by the mode alone, whatever the other two texts are (short:
\* Catalan 100..200, Arabic 230..310, Tachelhit H-220..H-120).
C18_BandsIffText ==
    img.composed =>
        /\ \A name \in {"catalan", "arabic", "tachelhit"} :
              (\E b \in img.bands : b.text = name)
                 <=> BandText(name) \notin {None, Absent, ""}
        /\ \A b \in img.bands :
              /\ b.text \in {"catalan", "arabic", "tachelhit"}
              /\ << b.y0, b.y1 >> = BandAt(mode, b.text)
        /\ \A b, c \in img.bands : b.text = c.text => b = c

C18_Witness ==
    /\ mode = "short" /\ pc = "done"
    /\ FrameItem.text_catalan = "" /\ FrameItem.text_arabic = None
    /\ FrameItem.text_tachelhit = "text"
    /\ \E b \in img.bands : b.text = "tachelhit" /\ b.y0 = 1700 /\ b.y1 = 1800
    /\ Cardinality(img.bands) = 1

\* nothing of the rendering has begun: no frame, no clip, no file, no handle
NothingRendered ==
    /\ img.composed = FALSE
    /\ clips = <<>> /\ final_clip = NoClip /\ audio_log = <<>>
    /\ files = {} /\ tmp_made = {} /\ open_handles = {} /\ remote = {}
    /\ result.kind = "none"

\* C15: api_generate and generate_video_api never let an exception escape:
\* once the generator has returned or raised, the entry point answers, with a
\* payload holding a video locator (generator returned) or an error payload
\* whose reason is the exception's message (generator raised); a type that is
\* neither mode, or a missing required argument, is answered with an error
\* payload while nothing of the rendering has begun.
C15_EntryPointsAlwaysAnswer ==
    /\ response.kind \in {"none", "video", "error"}
    /\ response.kind = "video" =>
          /\ pc = "done" /\ result.kind = "return"
          /\ response.video_path.store \in {"url", "local", "remote"}
          /\ response.video_path.name = (IF response.video_path.store = "remote"
                                         THEN ExpectedUrl.name ELSE output_filename)
          /\ response.error = ""
    /\ response.kind = "error" =>
          /\ response.error # ""
          /\ response.video_path.store = "none"
          /\ pc \in {"rejected", "failed"}
          /\ pc = "failed" => result.kind = "raise" /\ << response.error >> = result.value.name
    /\ (pc \in {"done", "failed"} /\ response.kind = "none") =>
          ENABLED (EntryReturn \/ EntryExcept)
    /\ (mode = "other" \/ params = "missing") =>
          /\ pc \in {"entry", "rejected"}
          /\ NothingRendered
          /\ pc = "rejected" => response.kind = "error"

C15_Witness ==
    /\ variant = "hf" /\ mode = "demo" /\ pc = "failed"
    /\ result.value.name = <<"write_videofile error">>
    /\ response.kind = "error" /\ response.error = "write_videofile error"

\* C14 as stated: a started job never waits forever: as long as the entry
\* point has not answered, some step of the job can be taken (a fetch that does
\* not respond expires and counts as an asset-load failure).
C14_NeverBlocked ==
    response.kind = "none" => ENABLED Next

\* C13 as stated: concurrent jobs do not interfere: a file (frame image or
\* output) is overwritten or deleted only by a step of the job that wrote it,
\* and a job that completes leaves its own complete output at its path, as it
\* would alone; two requests for one drill in the same second included.
C13_JobsDoNotInterfere ==
    [][ /\ \A f \in disk : f \notin disk' => jobs'[f.owner] # jobs[f.owner]
        /\ \A j \in DOMAIN jobs :
              jobs'[j].pc = "done" =>
                  [path |-> [store |-> "local", dir |-> "media/shorts",
                             name |-> jobs'[j].filename],
                   owner |-> j, complete |-> TRUE] \in disk' ]_vars

\* what a field holds once the supplied fields are applied to the row
AfterSupplied(row, upd, k) == IF upd[k] = "Unset" THEN row[k] ELSE upd[k]

\* C20: update_drill on an existing drill commits the supplied fields even
\* when the translation, the TTS call or both fail: the answer is the updated
\* drill (200), every supplied field other than the two enriched ones is
\* stored as sent, and text_arabic (translation failed) or audio_tts_url (TTS
\* failed) holds the value it had once the supplied fields were applied.
C20_UpdateCommitsDespiteFailures ==
    [][ /\ (upc = "translate" \/ upc = "tts") => upc' \in {"tts", "commit"}
        /\ (upc = "commit" /\ upc' # upc) =>
              /\ upc' = "done"
              /\ uresponse'.status = 200 /\ uresponse'.body = drill_row'
              /\ drill_row'.id = drill_row.id
              /\ \A k \in {"text_catalan", "text_tachelhit"} :
                    drill_row'[k] = AfterSupplied(drill_row, update_dict, k)
              /\ enrich.translate # "ok" =>
                    drill_row'.text_arabic = AfterSupplied(drill_row, update_dict, "text_arabic")
              /\ enrich.tts # "ok" =>
                    drill_row'.audio_tts_url
                       = AfterSupplied(drill_row, update_dict, "audio_tts_url") ]_vars

C20_Witness ==
    /\ upc = "done" /\ uresponse.status = 200
    /\ enrich = [translate |-> "fail", tts |-> "fail"]
    /\ update_dict = [text_catalan |-> "adeu", text_tachelhit |-> "azul",
                      text_arabic |-> "Unset", audio_tts_url |-> "tts_sent"]
    /\ drill_row = [id |-> 1, text_catalan |-> "adeu", text_tachelhit |-> "azul",
                    text_arabic |-> "ar_old", audio_tts_url |-> "tts_sent"]

\* C30 as stated: in the hf generators the temp file of a downloaded audio is
\* on disk for as long as the audio clip opened on it is in use: while the
\* clip's handle is open and the encode has not finished, the file exists.
C30_AudioTempOutlivesEncode ==
    pc \in {"item", "encode"} =>
        \A a \in audio_of : a.handle \in open_handles => a.tmp \subseteq files

\* the request carries a non-empty text_catalan
SendsCatalan == update_dict.text_catalan \notin {"Unset", "None", ""}

\* C29: update_drill changes the row only when it commits, and then only the
\* fields sent in the request (to the value sent), except that with a
\* non-empty text_catalan it may also set text_arabic to the translation and
\* audio_tts_url to the new TTS url; without one, neither the translation nor
\* the TTS runs; an unknown drill id answers 404 and changes nothing.
C29_UpdateFrame ==
    [][ /\ drill_row' # drill_row => (upc = "commit" /\ upc' = "done")
        /\ drill_row'.id = drill_row.id
        /\ \A k \in {"text_catalan", "text_tachelhit", "text_arabic", "audio_tts_url"} :
              drill_row'[k] # drill_row[k] =>
                 \/ update_dict[k] # "Unset" /\ drill_row'[k] = update_dict[k]
                 \/ /\ k = "text_arabic" /\ SendsCatalan
                    /\ enrich.translate = "ok" /\ drill_row'[k] = "ar_adeu"
                 \/ /\ k = "audio_tts_url" /\ SendsCatalan
                    /\ enrich.tts = "ok" /\ drill_row'[k] = "tts_adeu"
        /\ ~SendsCatalan => enrich' = [translate |-> "none", tts |-> "none"]
        /\ (upc = "request" /\ drill_row.id = 0) =>
              (upc' = "not_found" /\ uresponse'.status = 404 /\ drill_row' = drill_row)
        /\ upc' = "not_found" => drill_row.id = 0 ]_vars

C29_Witness ==
    /\ upc = "done" /\ uresponse.status = 200
    /\ enrich = [translate |-> "ok", tts |-> "ok"]
    /\ update_dict = [text_catalan |-> "adeu", text_tachelhit |-> "Unset",
                      text_arabic |-> "Unset", audio_tts_url |-> "Unset"]
    /\ drill_row = [id |-> 1, text_catalan |-> "adeu", text_tachelhit |-> "None",
                    text_arabic |-> "ar_adeu", audio_tts_url |-> "tts_adeu"]

\* C25 as stated: whatever generate_short and delete_short calls were served,
\* every YouTubeShort row comes from a generation that succeeded and its
\* video_path /media/shorts/<filename> names a file that exists in
\* media/shorts.
C25_RowsNameExistingFiles ==
    \A r \in shorts :
        /\ jobs[r.job].pc = "done"
        /\ \E f \in disk :
              f.path = [store |-> "local", dir |-> "media/shorts", name |-> r.video_path.name]

\* the statuses a job row may carry
JobStatuses == { "PENDING", "IN_PROGRESS", "COMPLETED", "FAILED" }
StatusRank(st) == CASE st = "PENDING" -> 0 [] st = "IN_PROGRESS" -> 1 [] OTHER -> 2

\* C21: a job's status is always one of PENDING, IN_PROGRESS, COMPLETED,
\* FAILED; the row submit returns is PENDING; a status changes only one step
\* forward along PENDING -> IN_PROGRESS -> COMPLETED and never once terminal;
\* every job whose background task has started eventually is COMPLETED or
\* FAILED, whatever status queries come in between.
C21_JobLifecycle ==
    /\ [](\A i \in DOMAIN vjobs : vjobs[i].status \in JobStatuses)
    /\ [][ /\ Len(vjobs') >= Len(vjobs)
           /\ \A i \in DOMAIN vjobs :
                 vjobs'[i].status # vjobs[i].status =>
                    /\ vjobs[i].status \in { "PENDING", "IN_PROGRESS" }
                    /\ StatusRank(vjobs'[i].status) = StatusRank(vjobs[i].status) + 1
                    /\ vjobs'[i].status \in { "IN_PROGRESS", "COMPLETED" }
           /\ Len(vjobs') > Len(vjobs) =>
                 /\ vjobs'[Len(vjobs')].status = "PENDING"
                 /\ vanswer'.op = "submit" /\ vanswer'.id = Len(vjobs')
                 /\ vanswer'.job_status = "PENDING" ]_vars
    /\ \A i \in VideoJobIds :
          (i \in DOMAIN vtasks /\ vtasks[i].pc = "started")
             ~> (i \in DOMAIN vtasks
                 /\ vjobs[vtasks[i].job_id].status \in { "COMPLETED", "FAILED" })

\* a status query saw the job IN_PROGRESS, and the job is now COMPLETED
C21_Witness ==
    /\ Len(vjobs) = 2
    /\ vanswer = [op |-> "status", source_url |-> None, file |-> None,
                  status |-> 200, id |-> 1, job_status |-> "IN_PROGRESS"]
    /\ vjobs[1].status = "COMPLETED" /\ vjobs[2].status = "PENDING"
    /\ vtasks[1].pc = "finished"

\* C22: submit_video_for_processing accepts a request only when exactly one
\* of source_url and file is given; with neither or both it answers 400,
\* stores no row and adds no task; when it accepts it stores exactly one row
\* and adds exactly one task, for that row's id.
C22_SubmitExactlyOne ==
    [][ (\/ Len(vjobs') # Len(vjobs)
         \/ Len(vtasks') # Len(vtasks)
         \/ (vanswer' # vanswer /\ vanswer'.op = "submit")) =>
           /\ vanswer'.op = "submit"
           /\ IF (vanswer'.source_url \notin {"None", ""}) # (vanswer'.file # "None")
              THEN /\ vanswer'.status = 200
                   /\ Len(vjobs') = Len(vjobs) + 1
                   /\ \A i \in DOMAIN vjobs : vjobs'[i] = vjobs[i]
                   /\ vanswer'.id = Len(vjobs')
                   /\ vtasks' = Append(vtasks, [job_id |-> vanswer'.id, pc |-> "scheduled"])
              ELSE /\ vanswer'.status = 400
                   /\ vjobs' = vjobs /\ vtasks' = vtasks ]_vars

\* a request with an empty source_url and a file was accepted as job 2
C22_Witness ==
    /\ vanswer = [op |-> "submit", source_url |-> "", file |-> "clip.mp4",
                  status |-> 200, id |-> 2, job_status |-> "PENDING"]
    /\ Len(vjobs) = 2 /\ Len(vtasks) = 2
    /\ vtasks[2] = [job_id |-> 2, pc |-> "scheduled"]

\* the pieces of drill_ids that are ids, as numbers, in their order
ListedIds(toks) ==
    LET ids == SelectSeq(toks, LAMBDA t : t \in {"1", "2", "3"})
    IN  [i \in DOMAIN ids |-> IF ids[i] = "1" THEN 1 ELSE IF ids[i] = "2" THEN 2 ELSE 3]

\* C23 as stated: the demo endpoint answers 404 when the test does not exist
\* and 400 with detail "Test has no drills" when none of the test's drill_ids
\* matches a drill, and starts no generation in either case; a failure during
\* generation answers 500.
C23_DemoErrorAnswers ==
    demo_pc = "answered" =>
       /\ ~demo_test.exists =>
             demo_answer.status = 404 /\ demo_items = <<>>
       /\ (/\ demo_test.exists
           /\ \A i \in DOMAIN demo_test.drill_ids : demo_test.drill_ids[i] # "x"
           /\ \A i \in DOMAIN ListedIds(demo_test.drill_ids) :
                 ListedIds(demo_test.drill_ids)[i] \notin demo_db) =>
             /\ demo_answer.status = 400
             /\ demo_answer.detail = "Test has no drills"
             /\ demo_items = <<>>
       /\ (demo_items # <<>> /\ demo_answer.status # 200) => demo_answer.status = 500

\* C24 as stated: the list handed to the demo generator holds the test's
\* drills in the order of test.drill_ids, one item per listed id that exists.
C24_ItemsInTestOrder ==
    demo_pc \in {"generating", "answered"} /\ demo_items # <<>> =>
        demo_items = SelectSeq(ListedIds(demo_test.drill_ids), LAMBDA d : d \in demo_db)

\* C26 as stated: import_data never modifies or replaces an existing row (a
\* record whose id exists is skipped), and posting the same payload a second
\* time inserts nothing: its three imported counts are 0 and the database
\* stays as the first import left it.
C26_ImportIdempotent ==
    [][ /\ \A t \in DOMAIN imp_db : imp_db[t] \subseteq imp_db'[t]
        /\ imp_round >= 2 => imp_db' = imp_db
        /\ (imp_round >= 2 /\ imp_pc' = "done") =>
              /\ imported'.drills = 0 /\ imported'.tests = 0
              /\ imported'.test_attempts = 0 ]_vars

\* C27: import_data is all-or-nothing: when the import fails it answers 500
\* and the tables are as before the request, the records handled before the
\* failing one included; rows reach the tables only by the commit of an
\* import that answers 200, which no payload with a record lacking its id
\* gets, and no refused row is ever stored.
C27_ImportAllOrNothing ==
    [][ /\ (imp_pc' = "failed" /\ imp_pc # "failed") =>
              /\ imp_answer' = 500
              /\ imp_db' = imp_db
              /\ imp_pending' = [t \in DOMAIN imp_db |-> {}]
        /\ imp_db' # imp_db => (imp_pc = "commit" /\ imp_pc' = "done" /\ imp_answer' = 200)
        /\ imp_pc' = "done" =>
              /\ \A t \in DOMAIN data : \A i \in DOMAIN data[t] : data[t][i].has_id
              /\ \A t \in DOMAIN imp_db : \A r \in imp_db'[t] : r.v # "None" ]_vars

\* two drills were handled and counted, then the attempt without id failed
\* the import: 500, and the tables are still empty
C27_Witness ==
    /\ imp_pc = "failed" /\ imp_answer = 500 /\ imp_round = 1
    /\ imported.drills = 2 /\ imported.tests = 1
    /\ Len(data.test_attempts) = 1 /\ ~data.test_attempts[1].has_id
    /\ imp_db = [t \in DOMAIN imp_db |-> {}]
    /\ imp_pending = [t \in DOMAIN imp_db |-> {}]

\* the four reasons to refuse an upload, in the order they are looked at, and
\* the status each is answered with
UploadFault(r, row) ==
    IF r.media_type \notin { "audio", "video", "image" } THEN 400
    ELSE IF r.drill_id # row.id THEN 404
    ELSE IF r.size = 0 THEN 400
    ELSE IF Ext(r.filename, r.media_type) \notin allowed_extensions(r.media_type) THEN 400
    ELSE 0

\* C28: upload_media with an invalid media type, an unknown drill id, an
\* empty file or an extension not allowed for the media type answers 400,
\* 404, 400, 400 (the first that applies), leaves the drill row unchanged
\* and stores no file; when it succeeds, exactly the url field of the media
\* type holds the returned url and every other field is as before.
C28_UploadFrame ==
    [][ /\ (up_pc' = "answered" /\ up_pc # "answered" /\ UploadFault(up_req, up_row) # 0) =>
              /\ up_answer'.status = UploadFault(up_req, up_row)
              /\ up_row' = up_row
              /\ up_files' = {}
        /\ (up_pc' = "answered" /\ up_pc # "answered" /\ up_answer'.status = 200) =>
              /\ UploadFault(up_req, up_row) = 0
              /\ up_answer'.url # [store |-> "none", dir |-> "", name |-> <<>>]
              /\ \A k \in DOMAIN up_row :
                    up_row'[k] = IF k = up_req.media_type \o "_url"
                                 THEN up_answer'.url ELSE up_row[k]
        /\ up_row' # up_row => up_answer'.status = 200 ]_vars

\* a png was uploaded as the image of drill 1: image_url is the new url, the
\* audio url and the text are the old ones
C28_Witness ==
    /\ up_pc = "answered" /\ up_answer.status = 200
    /\ up_req.media_type = "image" /\ up_req.filename = <<"photo", "png">>
    /\ up_row.image_url = up_answer.url
    /\ up_row.audio_url.name = <<"old">> /\ up_row.text_catalan = "hola"
    /\ up_files # {}
====
